---------------------------- MODULE Spec2Model ----------------------------
(***************************************************************************)
(* Model of the tiled navigation mesh (dtNavMesh) and of the dynamic tile  *)
(* cache (dtTileCache) of recastnavigation.                                *)
(*                                                                         *)
(* Conventions                                                             *)
(*  - A 32-bit unsigned word (dtPolyRef, dtTileRef, ...) is the pair       *)
(*    <<hi, lo>> of its two 16-bit halves: a reference uses all 32 bits,   *)
(*    and every integer of the model stays below 2^31.                     *)
(*  - Pointers into the tile array are slot indices, NULL_TILE is the      *)
(*    null pointer.  A header/data pointer is the index of the payload in  *)
(*    the catalogue Payloads, NULL_DATA is the null pointer.               *)
(*  - Lengths are in units of 0.01 world units (the slab margin px of      *)
(*    findConnectingPolys is then exactly 1).                              *)
(***************************************************************************)
EXTENDS Integers, Sequences, FiniteSets, TLC

(***************************************************************************)
(* Bounds and inputs of the model.                                         *)
(***************************************************************************)
\* dtNavMeshParams::maxTiles and ::maxPolys handed to init by specification Spec.
MaxTiles == 3
MaxPolys == 2
\* removeTile of a live tile is explored while the salt of its slot is at
\* most SaltWindow.
SaltWindow == 1
\* maxPolys of specification SpecCycle: 20 polygon bits, so that with the 2
\* tile bits of MaxTiles the salt has 10 bits, the fewest init accepts.
CyclePolys == 524289
\* SpecCycle frees the slot it observes at most CycleFrees times.
CycleFrees == 1024
\* maxTiles of specification SpecColumn: MAX_NEIS + 2 layers in one column.
ColumnTiles == 34
\* dtTileCacheParams::maxObstacles (maxTiles of the cache is MaxTiles).
MaxObstacles == 2
\* the caller of the tile cache lets at most MaxReqs requests queue up
\* between two updates.
MaxReqs == 2
\* maxTiles of specification SpecLut: two position hash buckets.
LutTiles == 8
\* maxPolys of specification SpecStitch (PayloadStrips has five polygons).
StitchPolys == 5
\* SpecDrain: the compressed layers of the row and the boxes laid over it.
RowTiles == 72
RowBoxes == 9

NULL_TILE == -1
NULL_DATA == 0
DT_NULL_LINK == -1
DT_TILE_FREE_DATA == 1
DT_EXT_LINK == 32768
DT_OFFMESH_CON_BIDIR == 1
DT_POLYTYPE_GROUND == 0
DT_POLYTYPE_OFFMESH_CONNECTION == 1
DT_NAVMESH_MAGIC == 1145979222
DT_NAVMESH_VERSION == 7
MAX_NEIS == 32

(***************************************************************************)
(* Status words: the set of the bits that are set.                         *)
(***************************************************************************)
DT_SUCCESS == {"SUCCESS"}
DT_FAILURE == {"FAILURE"}
DT_WRONG_MAGIC == {"WRONG_MAGIC"}
DT_WRONG_VERSION == {"WRONG_VERSION"}
DT_OUT_OF_MEMORY == {"OUT_OF_MEMORY"}
DT_INVALID_PARAM == {"INVALID_PARAM"}
DT_BUFFER_TOO_SMALL == {"BUFFER_TOO_SMALL"}
DT_ALREADY_OCCUPIED == {"ALREADY_OCCUPIED"}
dtStatusFailed(status) == "FAILURE" \in status
dtStatusSucceed(status) == "SUCCESS" \in status

(***************************************************************************)
(* 32-bit unsigned words as two 16-bit halves.                             *)
(***************************************************************************)
Pow2(n) == 2^n

U32(v) == <<(v \div 65536) % 65536, v % 65536>>

U32Zero == <<0, 0>>

\* (r >> n) & (2^b - 1), for b <= 30
U32Field(r, n, b) ==
    IF b = 0 THEN 0
    ELSE IF n >= 16 THEN (r[1] \div Pow2(n - 16)) % Pow2(b)
    ELSE LET k == IF b + n > 16 THEN b + n - 16 ELSE 0
         IN  ((r[1] % Pow2(k)) * Pow2(16 - n) + (r[2] \div Pow2(n))) % Pow2(b)

\* (uint32) v << n, for 0 <= v < 2^31 and 0 <= n < 32
U32Shl(v, n) ==
    IF n >= 16 THEN <<(v % Pow2(32 - n)) * Pow2(n - 16), 0>>
    ELSE <<(v \div Pow2(16 - n)) % 65536, (v % Pow2(16 - n)) * Pow2(n)>>

RECURSIVE BitOr(_, _)
BitOr(a, b) ==
    IF a = 0 THEN b
    ELSE IF b = 0 THEN a
    ELSE (IF a % 2 = 1 \/ b % 2 = 1 THEN 1 ELSE 0) + 2 * BitOr(a \div 2, b \div 2)

U32Or(a, b) == <<BitOr(a[1], b[1]), BitOr(a[2], b[2])>>

\* dtNextPow2: the smallest power of two >= v, and 0 for v = 0
dtNextPow2(v) ==
    IF v = 0 THEN 0
    ELSE Pow2(CHOOSE i \in 0..30 : Pow2(i) >= v /\ (i = 0 \/ Pow2(i - 1) < v))

\* dtIlog2: floor(log2(v)), and 0 for v = 0
dtIlog2(v) ==
    IF v = 0 THEN 0
    ELSE CHOOSE i \in 0..30 : Pow2(i) <= v /\ (i = 30 \/ v < Pow2(i + 1))

dtMin(a, b) == IF a < b THEN a ELSE b
dtMax(a, b) == IF a > b THEN a ELSE b
dtAbs(a) == IF a < 0 THEN -a ELSE a
dtClamp(v, mn, mx) == IF v < mn THEN mn ELSE IF v > mx THEN mx ELSE v
dtOppositeTile(side) == (side + 4) % 8


(***************************************************************************)
(* The catalogue of tile payloads (the byte blobs handed to addTile).      *)
(* Indices stored inside a payload (vertex, polygon indices, neis) are the *)
(* code's 0-based values; the sequences holding them are 1-based.          *)
(* All polygons of the catalogue are level axis-aligned rectangles, and no *)
(* payload has a BV tree (bvNodeCount = 0).                                *)
(* A polygon is built with flags 1 and area 0.                             *)
(***************************************************************************)
GroundPoly(vs, ns) ==
    [vertCount |-> Len(vs), verts |-> vs, neis |-> ns, type |-> DT_POLYTYPE_GROUND,
     flags |-> 1, area |-> 0]

OffMeshPoly(vs) ==
    [vertCount |-> 2, verts |-> vs, neis |-> <<0, 0>>,
     type |-> DT_POLYTYPE_OFFMESH_CONNECTION, flags |-> 1, area |-> 0]

\* (0,0,0): two ground polygons joined by an internal edge; the east one has
\* a portal on side 0 (x+).
PayloadA ==
    [magic |-> DT_NAVMESH_MAGIC, version |-> DT_NAVMESH_VERSION,
     x |-> 0, y |-> 0, layer |-> 0, polyCount |-> 2, maxLinkCount |-> 4,
     offMeshConCount |-> 0, walkableClimb |-> 25,
     verts |-> << <<0, 0, 0>>, <<500, 0, 0>>, <<1000, 0, 0>>,
                  <<1000, 0, 1000>>, <<500, 0, 1000>>, <<0, 0, 1000>> >>,
     polys |-> << GroundPoly(<<0, 1, 4, 5>>, <<0, 2, 0, 0>>),
                  GroundPoly(<<1, 2, 3, 4>>, <<0, DT_EXT_LINK + 0, 0, 1>>) >>,
     offMeshCons |-> << >>]

\* (1,0,0): one ground polygon with a portal on side 4 (x-).
PayloadB ==
    [magic |-> DT_NAVMESH_MAGIC, version |-> DT_NAVMESH_VERSION,
     x |-> 1, y |-> 0, layer |-> 0, polyCount |-> 1, maxLinkCount |-> 2,
     offMeshConCount |-> 0, walkableClimb |-> 25,
     verts |-> << <<1000, 0, 0>>, <<2000, 0, 0>>, <<2000, 0, 1000>>,
                  <<1000, 0, 1000>> >>,
     polys |-> << GroundPoly(<<0, 1, 2, 3>>, <<0, 0, 0, DT_EXT_LINK + 4>>) >>,
     offMeshCons |-> << >>]

\* (0,0,1): a second layer above (0,0,0) with one ground polygon and one
\* bidirectional off-mesh connection that starts on it and ends on the west
\* polygon of the layer below.
PayloadL ==
    [magic |-> DT_NAVMESH_MAGIC, version |-> DT_NAVMESH_VERSION,
     x |-> 0, y |-> 0, layer |-> 1, polyCount |-> 2, maxLinkCount |-> 3,
     offMeshConCount |-> 1, walkableClimb |-> 25,
     verts |-> << <<0, 200, 0>>, <<1000, 200, 0>>, <<1000, 200, 1000>>,
                  <<0, 200, 1000>>, <<500, 200, 500>>, <<250, 0, 500>> >>,
     polys |-> << GroundPoly(<<0, 1, 2, 3>>, <<0, 0, 0, 0>>),
                  OffMeshPoly(<<4, 5>>) >>,
     offMeshCons |-> << [pos |-> <<500, 200, 500, 250, 0, 500>>, rad |-> 50,
                         poly |-> 1, flags |-> DT_OFFMESH_CON_BIDIR,
                         side |-> 255] >>]

\* (0,0,0) again, with other content: one ground polygon with a portal on
\* side 0 and a link pool of a single link.
PayloadA2 ==
    [magic |-> DT_NAVMESH_MAGIC, version |-> DT_NAVMESH_VERSION,
     x |-> 0, y |-> 0, layer |-> 0, polyCount |-> 1, maxLinkCount |-> 1,
     offMeshConCount |-> 0, walkableClimb |-> 25,
     verts |-> << <<0, 0, 0>>, <<1000, 0, 0>>, <<1000, 0, 1000>>,
                  <<0, 0, 1000>> >>,
     polys |-> << GroundPoly(<<0, 1, 2, 3>>, <<0, DT_EXT_LINK + 0, 0, 0>>) >>,
     offMeshCons |-> << >>]

\* (0,0,0) with three ground polygons (three strips along x).
PayloadBig ==
    [magic |-> DT_NAVMESH_MAGIC, version |-> DT_NAVMESH_VERSION,
     x |-> 0, y |-> 0, layer |-> 0, polyCount |-> 3, maxLinkCount |-> 5,
     offMeshConCount |-> 0, walkableClimb |-> 25,
     verts |-> << <<0, 0, 0>>, <<300, 0, 0>>, <<600, 0, 0>>, <<1000, 0, 0>>,
                  <<1000, 0, 1000>>, <<600, 0, 1000>>, <<300, 0, 1000>>,
                  <<0, 0, 1000>> >>,
     polys |-> << GroundPoly(<<0, 1, 6, 7>>, <<0, 2, 0, 0>>),
                  GroundPoly(<<1, 2, 5, 6>>, <<0, 3, 0, 1>>),
                  GroundPoly(<<2, 3, 4, 5>>, <<0, DT_EXT_LINK + 0, 0, 2>>) >>,
     offMeshCons |-> << >>]

\* PayloadBig with a wrong version, and with a wrong magic and version.
PayloadBadVersion == [PayloadBig EXCEPT !.version = DT_NAVMESH_VERSION - 1]

PayloadBadMagic ==
    [PayloadBig EXCEPT !.magic = 0, !.version = DT_NAVMESH_VERSION - 1]

\* (0,1,0): one ground polygon, no portal.
PayloadN ==
    [magic |-> DT_NAVMESH_MAGIC, version |-> DT_NAVMESH_VERSION,
     x |-> 0, y |-> 1, layer |-> 0, polyCount |-> 1, maxLinkCount |-> 1,
     offMeshConCount |-> 0, walkableClimb |-> 25,
     verts |-> << <<0, 0, 1000>>, <<1000, 0, 1000>>, <<1000, 0, 2000>>,
                  <<0, 0, 2000>> >>,
     polys |-> << GroundPoly(<<0, 1, 2, 3>>, <<0, 0, 0, 0>>) >>,
     offMeshCons |-> << >>]

\* (0,0,layer): one ground polygon high above the layers below, no portal.
Filler(layer) ==
    [magic |-> DT_NAVMESH_MAGIC, version |-> DT_NAVMESH_VERSION,
     x |-> 0, y |-> 0, layer |-> layer, polyCount |-> 1, maxLinkCount |-> 1,
     offMeshConCount |-> 0, walkableClimb |-> 25,
     verts |-> << <<0, 300 * layer, 0>>, <<1000, 300 * layer, 0>>,
                  <<1000, 300 * layer, 1000>>, <<0, 300 * layer, 1000>> >>,
     polys |-> << GroundPoly(<<0, 1, 2, 3>>, <<0, 0, 0, 0>>) >>,
     offMeshCons |-> << >>]

\* (0,0,0): PayloadA2 with a link pool of six links.
PayloadW == [PayloadA2 EXCEPT !.maxLinkCount = 6]

\* (1,0,0): five ground polygons, strips along x stacked along z, each with
\* a portal on side 4 (x-) and joined to the strips next to it.  Vertex k is
\* the west end and vertex 6 + k the east end of the line z = 200 k.
PayloadStrips ==
    [magic |-> DT_NAVMESH_MAGIC, version |-> DT_NAVMESH_VERSION,
     x |-> 1, y |-> 0, layer |-> 0, polyCount |-> 5, maxLinkCount |-> 13,
     offMeshConCount |-> 0, walkableClimb |-> 25,
     verts |-> [k \in 1..6 |-> <<1000, 0, 200 * (k - 1)>>]
               \o [k \in 1..6 |-> <<2000, 0, 200 * (k - 1)>>],
     polys |-> [k \in 1..5 |->
                   GroundPoly(<<k - 1, k + 5, k + 6, k>>,
                              <<k - 1, 0, IF k = 5 THEN 0 ELSE k + 1,
                                DT_EXT_LINK + 4>>)],
     offMeshCons |-> << >>]

\* (0,1,0): one ground polygon without portal and one bidirectional
\* off-mesh connection whose two end points lie on it.
PayloadS4 ==
    [magic |-> DT_NAVMESH_MAGIC, version |-> DT_NAVMESH_VERSION,
     x |-> 0, y |-> 1, layer |-> 0, polyCount |-> 2, maxLinkCount |-> 4,
     offMeshConCount |-> 1, walkableClimb |-> 25,
     verts |-> << <<0, 0, 1000>>, <<1000, 0, 1000>>, <<1000, 0, 2000>>,
                  <<0, 0, 2000>>, <<250, 0, 1500>>, <<750, 0, 1500>> >>,
     polys |-> << GroundPoly(<<0, 1, 2, 3>>, <<0, 0, 0, 0>>),
                  OffMeshPoly(<<4, 5>>) >>,
     offMeshCons |-> << [pos |-> <<250, 0, 1500, 750, 0, 1500>>, rad |-> 50,
                         poly |-> 1, flags |-> DT_OFFMESH_CON_BIDIR,
                         side |-> 255] >>]

\* PayloadS4 with another start point, other flags of the connection and
\* another size of the link pool
PayloadS4With(start, flags, maxLinkCount) ==
    [PayloadS4 EXCEPT
        !.maxLinkCount = maxLinkCount,
        !.verts[5] = start,
        !.offMeshCons[1].pos = start \o <<750, 0, 1500>>,
        !.offMeshCons[1].flags = flags]

\* payloads 9, 10, ... are the layers 2, 3, ... of the column (0,0); then
\* come PayloadW, PayloadStrips and PayloadS4, and the four last ones are
\* PayloadS4 with a connection in one direction, with a start point far
\* from the polygon, with a start point off the corner of the polygon
\* (within the radius along x and along z, not in the plane), and with a
\* pool of a single link
Payloads ==
    << PayloadA, PayloadB, PayloadL, PayloadA2, PayloadBig, PayloadBadVersion,
       PayloadBadMagic, PayloadN >>
    \o [k \in 1..(ColumnTiles - 2) |-> Filler(k + 1)]
    \o << PayloadW, PayloadStrips, PayloadS4 >>
    \o << PayloadS4With(<<250, 0, 1500>>, 0, 4),
          PayloadS4With(<<1500, 0, 1500>>, DT_OFFMESH_CON_BIDIR, 4),
          PayloadS4With(<<1040, 0, 2040>>, DT_OFFMESH_CON_BIDIR, 4),
          PayloadS4With(<<250, 0, 1500>>, DT_OFFMESH_CON_BIDIR, 1) >>

\* the indices of PayloadW, PayloadStrips and PayloadS4, and of the
\* variants of PayloadS4
IdW == Len(Payloads) - 6
IdStrips == Len(Payloads) - 5
IdS4 == Len(Payloads) - 4

OffMeshIds == IdS4..Len(Payloads)

PayloadIds == 1..IdS4

Header(data) == Payloads[data]

(***************************************************************************)
(* Folds used for the code's loops.                                        *)
(***************************************************************************)
RECURSIVE FoldSeq(_, _, _)
\* One iteration is evaluated before the next one starts (a = a is TRUE and
\* only fixes the order of evaluation).
FoldSeq(Op(_, _), acc, s) ==
    LET half == Len(s) \div 2
        Then(a) == IF a = a THEN FoldSeq(Op, a, SubSeq(s, half + 1, Len(s)))
                   ELSE acc
    IN  IF s = << >> THEN acc
        ELSE IF Len(s) = 1 THEN Op(acc, s[1])
        ELSE Then(FoldSeq(Op, acc, SubSeq(s, 1, half)))

RECURSIVE Range0(_, _)
\* <<lo, lo+1, ..., hi-1>>
Range0(lo, hi) == IF lo >= hi THEN << >> ELSE <<lo>> \o Range0(lo + 1, hi)

RECURSIVE RangeDown(_, _)
\* <<hi-1, hi-2, ..., lo>>
RangeDown(lo, hi) == IF lo >= hi THEN << >> ELSE <<hi - 1>> \o RangeDown(lo, hi - 1)

SeqToSet(s) == {s[i] : i \in 1..Len(s)}

(***************************************************************************)
(* State.                                                                  *)
(*  nav   the dtNavMesh object: m_maxTiles, m_tileLutSize, m_tileLutMask,  *)
(*        m_tileBits, m_polyBits, m_saltBits, m_nextFree, m_posLookup and  *)
(*        m_tiles.  A tile slot holds salt, next, header (= data), flags,  *)
(*        linksFreeList and the two mutable parts of its payload: links    *)
(*        (the link pool) and firstLink (dtPoly::firstLink per polygon).   *)
(*  last  the last call made by the caller with its arguments, the status  *)
(*        it returned and its out-parameters.                              *)
(***************************************************************************)
VARIABLES nav, tc, last, hist

vars == <<nav, tc, last, hist>>

(***************************************************************************)
(* Reference codec (widths fixed by init).                                 *)
(***************************************************************************)
encodePolyId(n, salt, it, ip) ==
    U32Or(U32Or(U32Shl(salt, n.m_polyBits + n.m_tileBits),
                U32Shl(it, n.m_polyBits)),
          U32(ip))

decodePolyIdSalt(n, ref) ==
    U32Field(ref, n.m_polyBits + n.m_tileBits, n.m_saltBits)

decodePolyIdTile(n, ref) == U32Field(ref, n.m_polyBits, n.m_tileBits)

decodePolyIdPoly(n, ref) == U32Field(ref, 0, n.m_polyBits)

\* h1 * x + h2 * y (mod 2^32) & mask, for a mask below 2^16: only the low 16
\* bits of the two multipliers 0x8da6b343 and 0xd8163841 take part.
computeTileHash(x, y, mask) ==
    LET size == mask + 1
    IN  ((45891 % size) * (x % size) + (14401 % size) * (y % size)) % size

getTileRefOf(n, it) == encodePolyId(n, n.m_tiles[it].salt, it, 0)

getTileRef(n, tile) == IF tile = NULL_TILE THEN U32Zero ELSE getTileRefOf(n, tile)

getPolyRefBase(n, tile) ==
    IF tile = NULL_TILE THEN U32Zero ELSE encodePolyId(n, n.m_tiles[tile].salt, tile, 0)

(***************************************************************************)
(* init                                                                    *)
(***************************************************************************)
\* what a slot holds in the place of a header while it has no data
NullHeader == [f \in DOMAIN PayloadA |-> 0]

\* a tile slot: header is the data block the slot points to (NULL_DATA for
\* none), hdr the dtMeshHeader found at its start and polys the flags and
\* the area of each polygon (dtPoly::flags, dtPoly::getArea())
EmptyTile ==
    [salt |-> 0, next |-> NULL_TILE, header |-> NULL_DATA, hdr |-> NullHeader,
     flags |-> 0, linksFreeList |-> 0, links |-> << >>, firstLink |-> << >>,
     polys |-> << >>]

init(params) ==
    LET lut0 == dtNextPow2(params.maxTiles \div 4)
        lutSize == IF lut0 = 0 THEN 1 ELSE lut0
        tileBits == dtIlog2(dtNextPow2(params.maxTiles))
        polyBits == dtIlog2(dtNextPow2(params.maxPolys))
        \* 32 - tileBits - polyBits in unsigned arithmetic
        saltBits == IF tileBits + polyBits > 32 THEN 31
                    ELSE dtMin(31, 32 - tileBits - polyBits)
        n0 == [m_maxTiles |-> params.maxTiles,
               m_tileLutSize |-> lutSize,
               m_tileLutMask |-> lutSize - 1,
               m_tileBits |-> tileBits,
               m_polyBits |-> polyBits,
               m_saltBits |-> saltBits,
               m_nextFree |-> NULL_TILE,
               m_posLookup |-> [h \in 0..(lutSize - 1) |-> NULL_TILE],
               m_tiles |-> [i \in 0..(params.maxTiles - 1) |-> EmptyTile]]
        Push(n, i) ==
            [n EXCEPT !.m_tiles[i].salt = 1,
                      !.m_tiles[i].next = n.m_nextFree,
                      !.m_nextFree = i]
    IN  [nav |-> FoldSeq(Push, n0, RangeDown(0, params.maxTiles)),
         status |-> IF saltBits < 10 THEN DT_FAILURE \cup DT_INVALID_PARAM
                    ELSE DT_SUCCESS]

(***************************************************************************)
(* Position lookups.                                                       *)
(***************************************************************************)
RECURSIVE ChainFrom(_, _, _)
\* the slots reached from idx by following next (at most fuel of them)
ChainFrom(tiles, idx, fuel) ==
    IF idx = NULL_TILE \/ fuel = 0 THEN << >>
    ELSE <<idx>> \o ChainFrom(tiles, tiles[idx].next, fuel - 1)

Bucket(n, x, y) ==
    ChainFrom(n.m_tiles, n.m_posLookup[computeTileHash(x, y, n.m_tileLutMask)],
              n.m_maxTiles)

FreeList(n) == ChainFrom(n.m_tiles, n.m_nextFree, n.m_maxTiles)

\* a lookup that inspects the head of the bucket only
getTileAtHead(n, x, y, layer) ==
    LET b == Bucket(n, x, y)
    IN  IF b = << >> THEN NULL_TILE
        ELSE IF /\ n.m_tiles[Head(b)].header # NULL_DATA
                /\ n.m_tiles[Head(b)].hdr.x = x
                /\ n.m_tiles[Head(b)].hdr.y = y
                /\ n.m_tiles[Head(b)].hdr.layer = layer
        THEN Head(b)
        ELSE NULL_TILE

getTileAt(n, x, y, layer) ==
    LET hit == SelectSeq(Bucket(n, x, y),
                   LAMBDA t : /\ n.m_tiles[t].header # NULL_DATA
                              /\ n.m_tiles[t].hdr.x = x
                              /\ n.m_tiles[t].hdr.y = y
                              /\ n.m_tiles[t].hdr.layer = layer)
    IN  IF hit = << >> THEN NULL_TILE ELSE Head(hit)

getTilesAt(n, x, y, maxTiles) ==
    LET hit == SelectSeq(Bucket(n, x, y),
                   LAMBDA t : /\ n.m_tiles[t].header # NULL_DATA
                              /\ n.m_tiles[t].hdr.x = x
                              /\ n.m_tiles[t].hdr.y = y)
    IN  SubSeq(hit, 1, dtMin(Len(hit), maxTiles))

getNeighbourTilesAt(n, x, y, side, maxTiles) ==
    LET nx == CASE side \in {0, 1, 7} -> x + 1
                [] side \in {3, 4, 5} -> x - 1
                [] OTHER -> x
        ny == CASE side \in {1, 2, 3} -> y + 1
                [] side \in {5, 6, 7} -> y - 1
                [] OTHER -> y
    IN  getTilesAt(n, nx, ny, maxTiles)

getTileRefAt(n, x, y, layer) == getTileRef(n, getTileAt(n, x, y, layer))

(***************************************************************************)
(* Reference validation.                                                   *)
(***************************************************************************)
isValidPolyRef(n, ref) ==
    IF ref = U32Zero THEN FALSE
    ELSE LET salt == decodePolyIdSalt(n, ref)
             it == decodePolyIdTile(n, ref)
             ip == decodePolyIdPoly(n, ref)
         IN  IF it >= n.m_maxTiles THEN FALSE
             ELSE IF n.m_tiles[it].salt # salt \/ n.m_tiles[it].header = NULL_DATA
                  THEN FALSE
             ELSE IF ip >= n.m_tiles[it].hdr.polyCount THEN FALSE
             ELSE TRUE

\* [status, tile, poly]: tile and poly are written on success only
getTileAndPolyByRef(n, ref) ==
    IF ref = U32Zero
    THEN [status |-> DT_FAILURE, tile |-> NULL_TILE, poly |-> -1]
    ELSE LET salt == decodePolyIdSalt(n, ref)
             it == decodePolyIdTile(n, ref)
             ip == decodePolyIdPoly(n, ref)
             bad == [status |-> DT_FAILURE \cup DT_INVALID_PARAM,
                     tile |-> NULL_TILE, poly |-> -1]
         IN  IF it >= n.m_maxTiles THEN bad
             ELSE IF n.m_tiles[it].salt # salt \/ n.m_tiles[it].header = NULL_DATA
                  THEN bad
             ELSE IF ip >= n.m_tiles[it].hdr.polyCount THEN bad
             ELSE [status |-> DT_SUCCESS, tile |-> it, poly |-> ip]

getTileByRef(n, ref) ==
    IF ref = U32Zero THEN NULL_TILE
    ELSE LET tileIndex == decodePolyIdTile(n, ref)
             tileSalt == decodePolyIdSalt(n, ref)
         IN  IF tileIndex >= n.m_maxTiles THEN NULL_TILE
             ELSE IF n.m_tiles[tileIndex].salt # tileSalt THEN NULL_TILE
             ELSE tileIndex

(***************************************************************************)
(* Link allocator and polygon link chains (t is a tile slot).              *)
(***************************************************************************)
allocLink(t) ==
    IF t.linksFreeList = DT_NULL_LINK
    THEN [tile |-> t, link |-> DT_NULL_LINK]
    ELSE [tile |-> [t EXCEPT !.linksFreeList = t.links[t.linksFreeList + 1].next],
          link |-> t.linksFreeList]

\* a freeLink that does not push the link
freeLinkDropped(t, link) == t

freeLink(t, link) ==
    [t EXCEPT !.links[link + 1].next = t.linksFreeList,
              !.linksFreeList = link]

\* a link filled with edge 0 whatever the edge
addLinkEdgeZero(t, poly, ref, edge, side, lim) ==
    LET a == allocLink(t)
    IN  IF a.link = DT_NULL_LINK THEN t
        ELSE [a.tile EXCEPT
                 !.links[a.link + 1] =
                     [ref |-> ref, edge |-> 0, side |-> side,
                      bmin |-> 0, bmax |-> 0,
                      next |-> a.tile.firstLink[poly + 1]],
                 !.firstLink[poly + 1] = a.link]

\* idx = allocLink(tile); if (idx != DT_NULL_LINK) { fill the link;
\* link->next = poly->firstLink; poly->firstLink = idx; }
\* lim is <<bmin, bmax>>, or << >> when the code leaves the limits unwritten.
addLink(t, poly, ref, edge, side, lim) ==
    LET a == allocLink(t)
        old == a.tile.links[a.link + 1]
    IN  IF a.link = DT_NULL_LINK THEN t
        ELSE [a.tile EXCEPT
                 !.links[a.link + 1] =
                     [ref |-> ref, edge |-> edge, side |-> side,
                      bmin |-> IF lim = << >> THEN old.bmin ELSE lim[1],
                      bmax |-> IF lim = << >> THEN old.bmax ELSE lim[2],
                      next |-> a.tile.firstLink[poly + 1]],
                 !.firstLink[poly + 1] = a.link]

RECURSIVE PolyChain(_, _, _)
\* the link indices of a polygon's chain, from firstLink on
PolyChain(t, j, fuel) ==
    IF j = DT_NULL_LINK \/ fuel = 0 THEN << >>
    ELSE <<j>> \o PolyChain(t, t.links[j + 1].next, fuel - 1)

PolyLinks(t, poly) == PolyChain(t, t.firstLink[poly + 1], Len(t.links) + 1)

FreeLinks(t) == PolyChain(t, t.linksFreeList, Len(t.links) + 1)

connectIntLinks(n, tile) ==
    LET hdr == n.m_tiles[tile].hdr
        base == getPolyRefBase(n, tile)
        DoPoly(t, i) ==
            LET poly == hdr.polys[i + 1]
                t1 == [t EXCEPT !.firstLink[i + 1] = DT_NULL_LINK]
                DoEdge(tt, j) ==
                    IF poly.neis[j + 1] = 0 \/ poly.neis[j + 1] >= DT_EXT_LINK
                    THEN tt
                    ELSE addLink(tt, i, U32Or(base, U32(poly.neis[j + 1] - 1)),
                                 j, 255, <<0, 0>>)
            IN  IF poly.type = DT_POLYTYPE_OFFMESH_CONNECTION THEN t1
                ELSE FoldSeq(DoEdge, t1, RangeDown(0, poly.vertCount))
    IN  [n EXCEPT !.m_tiles[tile] = FoldSeq(DoPoly, @, Range0(0, hdr.polyCount))]

RECURSIVE UnconnectWalk(_, _, _, _, _, _)
UnconnectWalk(n, t, i, j, pj, targetNum) ==
    IF j = DT_NULL_LINK THEN t
    ELSE IF decodePolyIdTile(n, t.links[j + 1].ref) = targetNum
    THEN LET nj == t.links[j + 1].next
             t1 == IF pj = DT_NULL_LINK
                   THEN [t EXCEPT !.firstLink[i + 1] = nj]
                   ELSE [t EXCEPT !.links[pj + 1].next = nj]
         IN  UnconnectWalk(n, freeLink(t1, j), i, nj, pj, targetNum)
    ELSE UnconnectWalk(n, t, i, t.links[j + 1].next, j, targetNum)

unconnectLinks(n, tile, target) ==
    IF tile = NULL_TILE \/ target = NULL_TILE THEN n
    ELSE LET targetNum == decodePolyIdTile(n, getTileRef(n, target))
             hdr == n.m_tiles[tile].hdr
             DoPoly(t, i) == UnconnectWalk(n, t, i, t.firstLink[i + 1],
                                           DT_NULL_LINK, targetNum)
         IN  [n EXCEPT !.m_tiles[tile] =
                          FoldSeq(DoPoly, @, Range0(0, hdr.polyCount))]

(***************************************************************************)
(* Portal matching.  A slab end point is <<coordinate, height>>.           *)
(***************************************************************************)
getSlabCoord(va, side) ==
    IF side = 0 \/ side = 4 THEN va[1]
    ELSE IF side = 2 \/ side = 6 THEN va[3]
    ELSE 0

\* <<bmin, bmax>>; for a diagonal side the code writes neither (the catalogue
\* has no diagonal portal).
calcSlabEndPoints(va, vb, side) ==
    CASE side = 0 \/ side = 4 ->
             IF va[3] < vb[3] THEN << <<va[3], va[2]>>, <<vb[3], vb[2]>> >>
             ELSE << <<vb[3], vb[2]>>, <<va[3], va[2]>> >>
      [] side = 2 \/ side = 6 ->
             IF va[1] < vb[1] THEN << <<va[1], va[2]>>, <<vb[1], vb[2]>> >>
             ELSE << <<vb[1], vb[2]>>, <<va[1], va[2]>> >>

\* The heights ad*x + ak are kept as numerators over the slab lengths
\* A = amax[0] - amin[0] and B = bmax[0] - bmin[0] (both > 0 in the
\* catalogue), so dmin and dmax are numerators over A*B.
overlapSlabs(amin, amax, bmin, bmax, px, py) ==
    LET minx == dtMax(amin[1] + px, bmin[1] + px)
        maxx == dtMin(amax[1] - px, bmax[1] - px)
        A == amax[1] - amin[1]
        B == bmax[1] - bmin[1]
        aminy == amin[2] * A + (amax[2] - amin[2]) * (minx - amin[1])
        amaxy == amin[2] * A + (amax[2] - amin[2]) * (maxx - amin[1])
        bminy == bmin[2] * B + (bmax[2] - bmin[2]) * (minx - bmin[1])
        bmaxy == bmin[2] * B + (bmax[2] - bmin[2]) * (maxx - bmin[1])
        dmin == bminy * A - aminy * B
        dmax == bmaxy * A - amaxy * B
        thr == 2 * py * A * B
    IN  IF minx > maxx THEN FALSE
        ELSE IF (dmin < 0 /\ dmax > 0) \/ (dmin > 0 /\ dmax < 0) THEN TRUE
        ELSE dtAbs(dmin) <= thr \/ dtAbs(dmax) <= thr

\* the matches <<[ref, lo, hi], ...>> (con[] and conarea[]), at most maxcon
findConnectingPolys(n, va, vb, tile, side, maxcon) ==
    IF tile = NULL_TILE THEN << >>
    ELSE
    LET hdr == n.m_tiles[tile].hdr
        a == calcSlabEndPoints(va, vb, side)
        apos == getSlabCoord(va, side)
        m == DT_EXT_LINK + side
        base == getPolyRefBase(n, tile)
        Touches(poly, j) ==
            LET vc == hdr.verts[poly.verts[j + 1] + 1]
                vd == hdr.verts[poly.verts[((j + 1) % poly.vertCount) + 1] + 1]
                b == calcSlabEndPoints(vc, vd, side)
            IN  /\ poly.neis[j + 1] = m
                /\ ~(dtAbs(apos - getSlabCoord(vc, side)) > 1)
                /\ overlapSlabs(a[1], a[2], b[1], b[2], 1, hdr.walkableClimb)
        DoPoly(con, i) ==
            LET poly == hdr.polys[i + 1]
                js == SelectSeq(Range0(0, poly.vertCount),
                                LAMBDA j : Touches(poly, j))
            IN  IF js = << >> \/ Len(con) >= maxcon THEN con
                ELSE LET j == Head(js)
                         vc == hdr.verts[poly.verts[j + 1] + 1]
                         vd == hdr.verts[poly.verts[((j + 1) % poly.vertCount) + 1] + 1]
                         b == calcSlabEndPoints(vc, vd, side)
                     IN  Append(con, [ref |-> U32Or(base, U32(i)),
                                      lo |-> dtMax(a[1][1], b[1][1]),
                                      hi |-> dtMin(a[2][1], b[2][1])])
    IN  FoldSeq(DoPoly, << >>, Range0(0, hdr.polyCount))

\* (uint8_t) roundf(dtClamp(num / den, 0, 1) * 255), den # 0
PortalByte(num, den) ==
    LET nn == IF den < 0 THEN -num ELSE num
        dd == dtAbs(den)
        c == dtClamp(nn, 0, dd)
    IN  (2 * 255 * c + dd) \div (2 * dd)

\* the limits without the swap of tmin and tmax
PortalLimitsNoSwap(lo, hi, va, vb, k) ==
    LET den == vb[k] - va[k]
        tminN == IF den < 0 THEN -(lo - va[k]) ELSE lo - va[k]
        tmaxN == IF den < 0 THEN -(hi - va[k]) ELSE hi - va[k]
    IN  <<PortalByte(tminN, dtAbs(den)), PortalByte(tmaxN, dtAbs(den))>>

\* <<bmin, bmax>> of a link: the overlap lo..hi along the edge va..vb on
\* axis k (3 for sides 0 and 4, 1 for sides 2 and 6)
PortalLimits(lo, hi, va, vb, k) ==
    LET den == vb[k] - va[k]
        tminN == IF den < 0 THEN -(lo - va[k]) ELSE lo - va[k]
        tmaxN == IF den < 0 THEN -(hi - va[k]) ELSE hi - va[k]
        mn == IF tminN > tmaxN THEN tmaxN ELSE tminN
        mx == IF tminN > tmaxN THEN tminN ELSE tmaxN
    IN  <<PortalByte(mn, dtAbs(den)), PortalByte(mx, dtAbs(den))>>

connectExtLinks(n, tile, target, side) ==
    IF tile = NULL_TILE THEN n
    ELSE
    LET hdr == n.m_tiles[tile].hdr
        DoPoly(t, i) ==
            LET poly == hdr.polys[i + 1]
                DoEdge(tt, j) ==
                    LET dir == poly.neis[j + 1] % 256
                        va == hdr.verts[poly.verts[j + 1] + 1]
                        vb == hdr.verts[poly.verts[((j + 1) % poly.vertCount) + 1] + 1]
                        nei == findConnectingPolys(n, va, vb, target,
                                                   dtOppositeTile(dir), 4)
                        DoNei(t3, c) ==
                            addLink(t3, i, c.ref, j, dir,
                                    IF dir = 0 \/ dir = 4
                                    THEN PortalLimits(c.lo, c.hi, va, vb, 3)
                                    ELSE IF dir = 2 \/ dir = 6
                                    THEN PortalLimits(c.lo, c.hi, va, vb, 1)
                                    ELSE << >>)
                    IN  IF poly.neis[j + 1] < DT_EXT_LINK THEN tt
                        ELSE IF side # -1 /\ dir # side THEN tt
                        ELSE FoldSeq(DoNei, tt, nei)
            IN  FoldSeq(DoEdge, t, Range0(0, poly.vertCount))
    IN  [n EXCEPT !.m_tiles[tile] = FoldSeq(DoPoly, @, Range0(0, hdr.polyCount))]

(***************************************************************************)
(* Nearest polygon of a tile (no BV tree: the linear scan).  The closest   *)
(* point is computed for the catalogue's polygons, level axis-aligned      *)
(* rectangles: the height over the polygon is the polygon's level, and the *)
(* closest boundary point of an outside position is its clamp.             *)
(***************************************************************************)
PolyVerts(hdr, poly) == [k \in 1..poly.vertCount |-> hdr.verts[poly.verts[k] + 1]]

MinOf(S) == CHOOSE m \in S : \A o \in S : m <= o
MaxOf(S) == CHOOSE m \in S : \A o \in S : m >= o

PolyBounds(vs) ==
    [bmin |-> [k \in 1..3 |-> MinOf({vs[i][k] : i \in 1..Len(vs)})],
     bmax |-> [k \in 1..3 |-> MaxOf({vs[i][k] : i \in 1..Len(vs)})]]

dtOverlapBounds(amin, amax, bmin, bmax) ==
    \A k \in 1..3 : ~(amin[k] > bmax[k] \/ amax[k] < bmin[k])

\* the crossing-number test, each quotient cross-multiplied
dtPointInPolygon(pt, vs) ==
    LET nv == Len(vs)
        Crosses(i) ==
            LET vi == vs[i]
                vj == vs[IF i = 1 THEN nv ELSE i - 1]
                D == vj[3] - vi[3]
                lhs == (pt[1] - vi[1]) * D
                rhs == (vj[1] - vi[1]) * (pt[3] - vi[3])
            IN  /\ (vi[3] > pt[3]) # (vj[3] > pt[3])
                /\ IF D > 0 THEN lhs < rhs ELSE lhs > rhs
    IN  Cardinality({i \in 1..nv : Crosses(i)}) % 2 = 1

queryPolygonsInTile(n, tile, qmin, qmax, maxPolys) ==
    LET hdr == n.m_tiles[tile].hdr
        base == getPolyRefBase(n, tile)
        hit == SelectSeq(Range0(0, hdr.polyCount),
                   LAMBDA i :
                       /\ hdr.polys[i + 1].type # DT_POLYTYPE_OFFMESH_CONNECTION
                       /\ LET b == PolyBounds(PolyVerts(hdr, hdr.polys[i + 1]))
                          IN  dtOverlapBounds(qmin, qmax, b.bmin, b.bmax))
    IN  [k \in 1..dtMin(Len(hit), maxPolys) |-> U32Or(base, U32(hit[k]))]

\* [closest, posOverPoly]
closestPointOnPoly(n, ref, pos) ==
    LET hdr == n.m_tiles[decodePolyIdTile(n, ref)].hdr
        \* vs are the polygon's vertices and b their bounds
        Closest(vs, b) ==
            IF dtPointInPolygon(pos, vs)
            THEN [closest |-> <<pos[1], vs[1][2], pos[3]>>, posOverPoly |-> TRUE]
            ELSE [closest |-> <<dtClamp(pos[1], b.bmin[1], b.bmax[1]), vs[1][2],
                                dtClamp(pos[3], b.bmin[3], b.bmax[3])>>,
                  posOverPoly |-> FALSE]
        OnPoly(vs) == Closest(vs, PolyBounds(vs))
    IN  OnPoly(PolyVerts(hdr, hdr.polys[decodePolyIdPoly(n, ref) + 1]))

\* [ref, nearestPt]; ref is 0 and nearestPt unset when nothing is near.
\* dist is -1 for FLT_MAX.
findNearestPolyInTile(n, tile, center, halfExtents) ==
    LET bmin == [k \in 1..3 |-> center[k] - halfExtents[k]]
        bmax == [k \in 1..3 |-> center[k] + halfExtents[k]]
        polys == queryPolygonsInTile(n, tile, bmin, bmax, 128)
        climb == n.m_tiles[tile].hdr.walkableClimb
        \* the squared distance to the closest point c, diff away
        Dist(c, diff) ==
            LET over == dtAbs(diff[2]) - climb
            IN  IF c.posOverPoly
                THEN (IF over > 0 THEN over * over ELSE 0)
                ELSE diff[1] * diff[1] + diff[2] * diff[2] + diff[3] * diff[3]
        Closer(best, ref, c, d) ==
            IF best.dist = -1 \/ d < best.dist
            THEN [ref |-> ref, nearestPt |-> c.closest, dist |-> d]
            ELSE best
        Near(best, ref, c) ==
            Closer(best, ref, c,
                   Dist(c, [k \in 1..3 |-> center[k] - c.closest[k]]))
        Step(best, ref) == Near(best, ref, closestPointOnPoly(n, ref, center))
    IN  FoldSeq(Step, [ref |-> U32Zero, nearestPt |-> <<0, 0, 0>>, dist |-> -1],
                polys)

(***************************************************************************)
(* Off-mesh connections.  The snapped end point is also copied into the    *)
(* payload's vertex array; no modelled operation reads an off-mesh         *)
(* polygon's vertices, and the vertex array is not part of the state.      *)
(***************************************************************************)
dtSqr(a) == a * a

\* a binding that allocates the link off the connection whether the start
\* point was snapped or not
baseOffMeshLinksUngated(n, tile) ==
    IF tile = NULL_TILE THEN n
    ELSE
    LET hdr == n.m_tiles[tile].hdr
        base == getPolyRefBase(n, tile)
        Link(nn, con, p, near) ==
            IF \/ near.ref = U32Zero
               \/ dtSqr(near.nearestPt[1] - p[1]) + dtSqr(near.nearestPt[3] - p[3])
                      > dtSqr(con.rad)
            THEN [nn EXCEPT !.m_tiles[tile] =
                     addLink(@, con.poly, near.ref, 0, 255, <<0, 0>>)]
            ELSE [nn EXCEPT !.m_tiles[tile] =
                     addLink(addLink(@, con.poly, near.ref, 0, 255, <<0, 0>>),
                             decodePolyIdPoly(nn, near.ref),
                             U32Or(base, U32(con.poly)), 255, 255, <<0, 0>>)]
        Find(nn, con, p) ==
            Link(nn, con, p,
                 findNearestPolyInTile(nn, tile, p,
                     <<con.rad, hdr.walkableClimb, con.rad>>))
        DoCon(nn, i) ==
            Find(nn, hdr.offMeshCons[i + 1],
                 SubSeq(hdr.offMeshCons[i + 1].pos, 1, 3))
    IN  FoldSeq(DoCon, n, Range0(0, hdr.offMeshConCount))

baseOffMeshLinks(n, tile) ==
    IF tile = NULL_TILE THEN n
    ELSE
    LET hdr == n.m_tiles[tile].hdr
        base == getPolyRefBase(n, tile)
        \* near is the polygon found at the start point p of con
        Link(nn, con, p, near) ==
            IF near.ref = U32Zero THEN nn
            ELSE IF dtSqr(near.nearestPt[1] - p[1]) + dtSqr(near.nearestPt[3] - p[3])
                        > dtSqr(con.rad)
            THEN nn
            ELSE [nn EXCEPT !.m_tiles[tile] =
                     addLink(addLink(@, con.poly, near.ref, 0, 255, <<0, 0>>),
                             decodePolyIdPoly(nn, near.ref),
                             U32Or(base, U32(con.poly)), 255, 255, <<0, 0>>)]
        Find(nn, con, p) ==
            Link(nn, con, p,
                 findNearestPolyInTile(nn, tile, p,
                     <<con.rad, hdr.walkableClimb, con.rad>>))
        DoCon(nn, i) ==
            Find(nn, hdr.offMeshCons[i + 1],
                 SubSeq(hdr.offMeshCons[i + 1].pos, 1, 3))
    IN  FoldSeq(DoCon, n, Range0(0, hdr.offMeshConCount))

connectExtOffMeshLinks(n, tile, target, side) ==
    IF tile = NULL_TILE THEN n
    ELSE
    LET thdr == n.m_tiles[target].hdr
        oppositeSide == IF side = -1 THEN 255 ELSE dtOppositeTile(side)
        \* the link back from the landing polygon, for a bidirectional
        \* connection (n1 holds the link off the connection)
        Back(nn, n1, targetCon, near) ==
            IF targetCon.flags % 2 = DT_OFFMESH_CON_BIDIR
            THEN [n1 EXCEPT !.m_tiles[tile] =
                     addLink(@, decodePolyIdPoly(nn, near.ref),
                             U32Or(getPolyRefBase(nn, target), U32(targetCon.poly)),
                             255, IF side = -1 THEN 255 ELSE side, <<0, 0>>)]
            ELSE n1
        \* near is the polygon found at the end point p of targetCon
        Link(nn, targetCon, p, near) ==
            IF near.ref = U32Zero THEN nn
            ELSE IF dtSqr(near.nearestPt[1] - p[1]) + dtSqr(near.nearestPt[3] - p[3])
                        > dtSqr(targetCon.rad)
            THEN nn
            ELSE Back(nn,
                      [nn EXCEPT !.m_tiles[target] =
                          addLink(@, targetCon.poly, near.ref, 1, oppositeSide,
                                  <<0, 0>>)],
                      targetCon, near)
        Find(nn, targetCon, p) ==
            IF targetCon.side # oppositeSide THEN nn
            ELSE IF nn.m_tiles[target].firstLink[targetCon.poly + 1] = DT_NULL_LINK
            THEN nn
            ELSE Link(nn, targetCon, p,
                      findNearestPolyInTile(nn, tile, p,
                          <<targetCon.rad, thdr.walkableClimb, targetCon.rad>>))
        DoCon(nn, i) ==
            Find(nn, thdr.offMeshCons[i + 1],
                 SubSeq(thdr.offMeshCons[i + 1].pos, 4, 6))
    IN  FoldSeq(DoCon, n, Range0(0, thdr.offMeshConCount))

(***************************************************************************)
(* addTile.  Returns [nav, status, result]; *result is written on success  *)
(* only (the caller's variable starts as 0).                               *)
(***************************************************************************)
\* The link pool of a payload as its free list is first built; the other
\* fields of a pooled link keep whatever the blob held and are not read
\* before addLink overwrites them.
FreshLinks(count) ==
    [i \in 1..count |->
        [ref |-> U32Zero, edge |-> 0, side |-> 0, bmin |-> 0, bmax |-> 0,
         next |-> IF i = count THEN DT_NULL_LINK ELSE i]]

\* a slot choice that takes the last slot of the free list, not its head
AllocTileSlotOldest(n, lastRef) ==
    IF lastRef = U32Zero
    THEN (IF FreeList(n) = << >> THEN NULL_TILE
          ELSE FreeList(n)[Len(FreeList(n))])
    ELSE LET tileIndex == decodePolyIdTile(n, lastRef)
         IN  IF tileIndex >= n.m_maxTiles THEN NULL_TILE
             ELSE IF tileIndex \in SeqToSet(FreeList(n)) THEN tileIndex
             ELSE NULL_TILE

\* a slot choice that falls back to the head of the free list when the slot
\* of lastRef cannot be taken
AllocTileSlotFallback(n, lastRef) ==
    IF lastRef = U32Zero
    THEN n.m_nextFree
    ELSE LET tileIndex == decodePolyIdTile(n, lastRef)
         IN  IF tileIndex < n.m_maxTiles /\ tileIndex \in SeqToSet(FreeList(n))
             THEN tileIndex
             ELSE n.m_nextFree

\* the free slot addTile takes: NULL_TILE when there is none
AllocTileSlot(n, lastRef) ==
    IF lastRef = U32Zero
    THEN n.m_nextFree
    ELSE LET tileIndex == decodePolyIdTile(n, lastRef)
         IN  IF tileIndex >= n.m_maxTiles THEN NULL_TILE
             ELSE IF tileIndex \in SeqToSet(FreeList(n)) THEN tileIndex
             ELSE NULL_TILE

\* the free list without the slot (prev->next = tile->next, or the head moves)
UnlinkFree(n, tile) ==
    LET fl == FreeList(n)
        k == CHOOSE i \in 1..Len(fl) : fl[i] = tile
    IN  IF k = 1
        THEN [n EXCEPT !.m_nextFree = n.m_tiles[tile].next]
        ELSE [n EXCEPT !.m_tiles[fl[k - 1]].next = n.m_tiles[tile].next]

\* the four connect calls made for a neighbour nei of tile on side, opposite
\* being the side of tile seen from nei
StitchPair(n, tile, nei, side, opposite) ==
    connectExtOffMeshLinks(
        connectExtOffMeshLinks(
            connectExtLinks(connectExtLinks(n, tile, nei, side),
                            nei, tile, opposite),
            tile, nei, side),
        nei, tile, opposite)

\* the layers of the cell of tile (side -1 both ways), then the tiles on
\* side i
StitchLayers(n, tile, neis) ==
    FoldSeq(LAMBDA nn, nei : IF nei = tile THEN nn
                             ELSE StitchPair(nn, tile, nei, -1, -1),
            n, neis)

StitchSide(n, tile, neis, i) ==
    FoldSeq(LAMBDA nn, nei : StitchPair(nn, tile, nei, i, dtOppositeTile(i)),
            n, neis)

RECURSIVE StitchSides(_, _, _)
\* for (int i = 0; i < 8; ++i): the tiles on side i
StitchSides(n, tile, i) ==
    IF i >= 8 THEN n
    ELSE StitchSides(StitchSide(n, tile,
                                getNeighbourTilesAt(n, n.m_tiles[tile].hdr.x,
                                                    n.m_tiles[tile].hdr.y, i,
                                                    MAX_NEIS),
                                i),
                     tile, i + 1)

\* the tests made before a slot is taken: the detail bit of the first one
\* that fails, { } when all pass
\* the header tests with the version tested before the magic
addTileChecksVersionFirst(n, header) ==
    IF header.version # DT_NAVMESH_VERSION THEN DT_WRONG_VERSION
    ELSE IF header.magic # DT_NAVMESH_MAGIC THEN DT_WRONG_MAGIC
    ELSE IF n.m_polyBits < dtIlog2(dtNextPow2(header.polyCount))
    THEN DT_INVALID_PARAM
    ELSE IF getTileAt(n, header.x, header.y, header.layer) # NULL_TILE
    THEN DT_ALREADY_OCCUPIED
    ELSE { }

addTileChecks(n, header) ==
    IF header.magic # DT_NAVMESH_MAGIC THEN DT_WRONG_MAGIC
    ELSE IF header.version # DT_NAVMESH_VERSION THEN DT_WRONG_VERSION
    ELSE IF n.m_polyBits < dtIlog2(dtNextPow2(header.polyCount))
    THEN DT_INVALID_PARAM
    ELSE IF getTileAt(n, header.x, header.y, header.layer) # NULL_TILE
    THEN DT_ALREADY_OCCUPIED
    ELSE { }

\* the rest of addTile once the slot tile is chosen
\* a slot that keeps its salt whatever lastRef says
RestoredSaltKept(n, tile, lastRef) == n.m_tiles[tile].salt

\* the salt of the slot addTile has taken: a lastRef restores its salt
RestoredSalt(n, tile, lastRef) ==
    IF lastRef = U32Zero THEN n.m_tiles[tile].salt
    ELSE decodePolyIdSalt(n, lastRef)

addTileCommit(n, data, flags, lastRef, tile) ==
    LET header == Header(data)
        \* the slot leaves the free list
        n1 == [UnlinkFree(n, tile) EXCEPT
                  !.m_tiles[tile].salt = RestoredSalt(n, tile, lastRef)]
        h == computeTileHash(header.x, header.y, n.m_tileLutMask)
        \* into the position bucket, then the payload is patched in
        n2 == [n1 EXCEPT
                  !.m_tiles[tile].next = n1.m_posLookup[h],
                  !.m_posLookup[h] = tile,
                  !.m_tiles[tile].links = FreshLinks(header.maxLinkCount),
                  !.m_tiles[tile].linksFreeList = 0,
                  !.m_tiles[tile].firstLink = [i \in 1..header.polyCount |-> 0],
                  !.m_tiles[tile].header = data,
                  !.m_tiles[tile].hdr = header,
                  !.m_tiles[tile].polys =
                      [i \in 1..header.polyCount |->
                          [flags |-> header.polys[i].flags,
                           area |-> header.polys[i].area]],
                  !.m_tiles[tile].flags = flags]
    IN  \* the links inside the tile, the layers of its cell, its eight sides
        StitchSides(
            StitchLayers(
                connectExtOffMeshLinks(
                    baseOffMeshLinks(connectIntLinks(n2, tile), tile),
                    tile, tile, -1),
                tile, getTilesAt(n2, header.x, header.y, MAX_NEIS)),
            tile, 0)

\* an addTile that takes its slot off the free list before the tests
addTileLeaky(n, data, flags, lastRef) ==
    LET tile == AllocTileSlot(n, lastRef)
        taken == IF tile = NULL_TILE THEN n ELSE UnlinkFree(n, tile)
        Fail(code) == [nav |-> taken, status |-> DT_FAILURE \cup code,
                       result |-> U32Zero]
        Added(m) ==
            [nav |-> m, status |-> DT_SUCCESS, result |-> getTileRef(m, tile)]
        rejected == addTileChecks(n, Header(data))
    IN  IF rejected # { } THEN Fail(rejected)
        ELSE IF tile = NULL_TILE THEN Fail(DT_OUT_OF_MEMORY)
        ELSE Added(addTileCommit(n, data, flags, lastRef, tile))

addTile(n, data, flags, lastRef) ==
    LET Fail(code) == [nav |-> n, status |-> DT_FAILURE \cup code,
                       result |-> U32Zero]
        Added(m, tile) ==
            [nav |-> m, status |-> DT_SUCCESS, result |-> getTileRef(m, tile)]
        rejected == addTileChecks(n, Header(data))
        tile == AllocTileSlot(n, lastRef)
    IN  IF rejected # { } THEN Fail(rejected)
        ELSE IF tile = NULL_TILE THEN Fail(DT_OUT_OF_MEMORY)
        ELSE Added(addTileCommit(n, data, flags, lastRef, tile), tile)

(***************************************************************************)
(* removeTile.  Returns [nav, status, data, crash].  The code reads        *)
(* tile->header->x without testing the header: for a reference that        *)
(* matches the current salt of a free slot this is a null-pointer read,    *)
(* reported here as crash.                                                 *)
(***************************************************************************)
\* an unlink that looks at the head of the bucket only
RemoveFromBucketHead(n, tile) ==
    LET hdr == n.m_tiles[tile].hdr
        h == computeTileHash(hdr.x, hdr.y, n.m_tileLutMask)
    IN  IF n.m_posLookup[h] = tile
        THEN [n EXCEPT !.m_posLookup[h] = n.m_tiles[tile].next]
        ELSE n

\* the bucket of the tile's position without the tile
RemoveFromBucket(n, tile) ==
    LET hdr == n.m_tiles[tile].hdr
        h == computeTileHash(hdr.x, hdr.y, n.m_tileLutMask)
        b == Bucket(n, hdr.x, hdr.y)
        k == CHOOSE i \in 1..Len(b) : b[i] = tile
    IN  IF tile \notin SeqToSet(b) THEN n
        ELSE IF k = 1 THEN [n EXCEPT !.m_posLookup[h] = n.m_tiles[tile].next]
        ELSE [n EXCEPT !.m_tiles[b[k - 1]].next = n.m_tiles[tile].next]

\* a free that leaves the salt as it is
NextSaltKept(n, salt) == salt

\* the salt of a freed slot: it is never zero
NextSalt(n, salt) ==
    LET s == (salt + 1) % Pow2(n.m_saltBits)
    IN  IF s = 0 THEN s + 1 ELSE s

removeTile(n, ref) ==
    LET Fail(code) == [nav |-> n, status |-> DT_FAILURE \cup code,
                       data |-> NULL_DATA, crash |-> FALSE]
        tileIndex == decodePolyIdTile(n, ref)
        tileSalt == decodePolyIdSalt(n, ref)
        tile == tileIndex
        hdr == n.m_tiles[tile].hdr
        n1 == RemoveFromBucket(n, tile)
        DoNei(nn, nei) == IF nei = tile THEN nn ELSE unconnectLinks(nn, nei, tile)
        n2 == FoldSeq(DoNei, n1, getTilesAt(n1, hdr.x, hdr.y, MAX_NEIS))
        DoSide(nn, i) ==
            FoldSeq(DoNei, nn, getNeighbourTilesAt(nn, hdr.x, hdr.y, i, MAX_NEIS))
        n3 == FoldSeq(DoSide, n2, Range0(0, 8))
        owned == n.m_tiles[tile].flags % 2 = DT_TILE_FREE_DATA
        n5 == [n3 EXCEPT
                  !.m_tiles[tile] =
                      [salt |-> NextSalt(n, n.m_tiles[tile].salt),
                       next |-> n3.m_nextFree,
                       header |-> NULL_DATA, hdr |-> NullHeader, flags |-> 0,
                       linksFreeList |-> 0, links |-> << >>,
                       firstLink |-> << >>, polys |-> << >>],
                  !.m_nextFree = tile]
    IN  IF ref = U32Zero THEN Fail(DT_INVALID_PARAM)
        ELSE IF tileIndex >= n.m_maxTiles THEN Fail(DT_INVALID_PARAM)
        ELSE IF n.m_tiles[tile].salt # tileSalt THEN Fail(DT_INVALID_PARAM)
        ELSE IF n.m_tiles[tile].header = NULL_DATA
        THEN [nav |-> n, status |-> { }, data |-> NULL_DATA, crash |-> TRUE]
        ELSE [nav |-> n5, status |-> DT_SUCCESS,
              data |-> IF owned THEN NULL_DATA ELSE n.m_tiles[tile].header,
              crash |-> FALSE]

(***************************************************************************)
(* Tile state.  The buffer storeTileState fills holds a dtTileState        *)
(* (magic, version, ref: 12 bytes) and one dtPolyState (flags, area: 4     *)
(* bytes) per polygon; a buffer never written holds zeros.  The area of a  *)
(* polygon is the low six bits of dtPoly::areaAndtype.                     *)
(***************************************************************************)
DT_NAVMESH_STATE_MAGIC == 1146047827
DT_NAVMESH_STATE_VERSION == 1

NoState == [magic |-> 0, version |-> 0, ref |-> U32Zero, polyStates |-> << >>]

\* dtPoly::setArea keeps the low six bits
setArea(a) == a % 64

getTileStateSize(n, tile) ==
    IF tile = NULL_TILE THEN 0 ELSE 12 + 4 * n.m_tiles[tile].hdr.polyCount

\* [status, data]: data is the buffer after the call
storeTileState(n, tile, data, maxDataSize) ==
    IF maxDataSize < getTileStateSize(n, tile)
    THEN [status |-> DT_FAILURE \cup DT_BUFFER_TOO_SMALL, data |-> data]
    ELSE [status |-> DT_SUCCESS,
          data |-> [magic |-> DT_NAVMESH_STATE_MAGIC,
                    version |-> DT_NAVMESH_STATE_VERSION,
                    ref |-> getTileRef(n, tile),
                    polyStates |->
                        [i \in 1..n.m_tiles[tile].hdr.polyCount |->
                            [flags |-> n.m_tiles[tile].polys[i].flags,
                             area |-> n.m_tiles[tile].polys[i].area]]]]

\* a restore that does not compare the stored reference with the tile's
restoreTileStateAnyRef(n, tile, data, maxDataSize) ==
    IF maxDataSize < getTileStateSize(n, tile)
    THEN [nav |-> n, status |-> DT_FAILURE \cup DT_INVALID_PARAM]
    ELSE IF data.magic # DT_NAVMESH_STATE_MAGIC
    THEN [nav |-> n, status |-> DT_FAILURE \cup DT_WRONG_MAGIC]
    ELSE IF data.version # DT_NAVMESH_STATE_VERSION
    THEN [nav |-> n, status |-> DT_FAILURE \cup DT_WRONG_VERSION]
    ELSE [nav |-> [n EXCEPT !.m_tiles[tile].polys =
                      [i \in 1..n.m_tiles[tile].hdr.polyCount |->
                          [flags |-> data.polyStates[i].flags,
                           area |-> setArea(data.polyStates[i].area)]]],
          status |-> DT_SUCCESS]

\* [nav, status]
restoreTileState(n, tile, data, maxDataSize) ==
    IF maxDataSize < getTileStateSize(n, tile)
    THEN [nav |-> n, status |-> DT_FAILURE \cup DT_INVALID_PARAM]
    ELSE IF data.magic # DT_NAVMESH_STATE_MAGIC
    THEN [nav |-> n, status |-> DT_FAILURE \cup DT_WRONG_MAGIC]
    ELSE IF data.version # DT_NAVMESH_STATE_VERSION
    THEN [nav |-> n, status |-> DT_FAILURE \cup DT_WRONG_VERSION]
    ELSE IF data.ref # getTileRef(n, tile)
    THEN [nav |-> n, status |-> DT_FAILURE \cup DT_INVALID_PARAM]
    ELSE [nav |-> [n EXCEPT !.m_tiles[tile].polys =
                      [i \in 1..n.m_tiles[tile].hdr.polyCount |->
                          [flags |-> data.polyStates[i].flags,
                           area |-> setArea(data.polyStates[i].area)]]],
          status |-> DT_SUCCESS]

\* [nav, status]; flags is a uint16_t
setPolyFlags(n, ref, flags) ==
    IF ref = U32Zero THEN [nav |-> n, status |-> DT_FAILURE]
    ELSE IF ~isValidPolyRef(n, ref)
    THEN [nav |-> n, status |-> DT_FAILURE \cup DT_INVALID_PARAM]
    ELSE [nav |-> [n EXCEPT !.m_tiles[decodePolyIdTile(n, ref)]
                               .polys[decodePolyIdPoly(n, ref) + 1].flags =
                                   flags % 65536],
          status |-> DT_SUCCESS]

\* [nav, status]; area is a uint8_t
setPolyArea(n, ref, area) ==
    IF ref = U32Zero THEN [nav |-> n, status |-> DT_FAILURE]
    ELSE IF ~isValidPolyRef(n, ref)
    THEN [nav |-> n, status |-> DT_FAILURE \cup DT_INVALID_PARAM]
    ELSE [nav |-> [n EXCEPT !.m_tiles[decodePolyIdTile(n, ref)]
                               .polys[decodePolyIdPoly(n, ref) + 1].area =
                                   setArea(area % 256)],
          status |-> DT_SUCCESS]

(***************************************************************************)
(* The tile cache (dtTileCache).  tc holds m_params, the widths of the     *)
(* reference fields, the compressed-tile slots with their position hash    *)
(* and free list, the obstacle slots with their free list, the request     *)
(* queue m_reqs (m_nreqs is its length) and the rebuild list m_update      *)
(* (m_nupdate is its length).  m_talloc and m_tcomp say whether the        *)
(* pointer is set.  A compressed tile's header/data pointer is             *)
(* the index of its layer in the catalogue CachePayloads.  Obstacle        *)
(* states, obstacle types and request actions are named by strings.        *)
(***************************************************************************)
DT_TILECACHE_MAGIC == 1146375250
DT_TILECACHE_VERSION == 1
DT_COMPRESSEDTILE_FREE_DATA == 1
MAX_REQUESTS == 64
MAX_UPDATE == 64
DT_MAX_TOUCHED_TILES == 8
MAX_TILES == 32

\* A compressed layer of cells 0..99 x 0..99 at tile (tx, ty), layer 0.
CacheLayer(tx, ty) ==
    [magic |-> DT_TILECACHE_MAGIC, version |-> DT_TILECACHE_VERSION,
     tx |-> tx, ty |-> ty, tlayer |-> 0,
     bmin |-> <<1000 * tx, 0, 1000 * ty>>,
     bmax |-> <<1000 * tx + 1000, 200, 1000 * ty + 1000>>,
     minx |-> 0, maxx |-> 99, miny |-> 0, maxy |-> 99]

\* the last RowTiles payloads are the layers (0,2), (1,2), ... of a row
CachePayloads ==
    << CacheLayer(0, 0), CacheLayer(1, 0),
       [CacheLayer(0, 0) EXCEPT !.version = DT_TILECACHE_VERSION + 1],
       [CacheLayer(0, 0) EXCEPT !.magic = 0,
                                !.version = DT_TILECACHE_VERSION + 1] >>
    \o [k \in 1..RowTiles |-> CacheLayer(k - 1, 2)]

\* the payloads before the row, and those of the row
CachePayloadIds == 1..(Len(CachePayloads) - RowTiles)

RowPayloadIds == (Len(CachePayloads) - RowTiles + 1)..Len(CachePayloads)

CacheHeader(data) == CachePayloads[data]

\* dtTileCacheParams of the model: tiles of 100 x 100 cells of size 10
CacheParams(maxTiles, maxObstacles) ==
    [orig |-> <<0, 0, 0>>, cs |-> 10, ch |-> 10, width |-> 100, height |-> 100,
     maxTiles |-> maxTiles, maxObstacles |-> maxObstacles]

encodeTileId(c, salt, it) == U32Or(U32Shl(salt, c.m_tileBits), U32(it))

decodeTileIdSalt(c, ref) == U32Field(ref, c.m_tileBits, c.m_saltBits)

decodeTileIdTile(c, ref) == U32Field(ref, 0, c.m_tileBits)

\* (salt << 16) | idx
encodeObstacleId(salt, idx) == <<salt, idx>>

decodeObstacleIdSalt(ref) == ref[1]

decodeObstacleIdObstacle(ref) == ref[2]

contains(a, v) == \E i \in 1..Len(a) : a[i] = v

EmptyCompressedTile ==
    [salt |-> 0, next |-> NULL_TILE, header |-> NULL_DATA, flags |-> 0]

\* an obstacle slot of zero bytes: state EMPTY, type CYLINDER
EmptyObstacle ==
    [salt |-> 0, state |-> "EMPTY", type |-> "CYLINDER",
     geom |-> [pos |-> <<0, 0, 0>>, radius |-> 0, height |-> 0],
     touched |-> << >>, pending |-> << >>, next |-> NULL_TILE]

tcInit(params, talloc, tcomp) ==
    LET lut0 == dtNextPow2(params.maxTiles \div 4)
        lutSize == IF lut0 = 0 THEN 1 ELSE lut0
        tileBits == dtIlog2(dtNextPow2(params.maxTiles))
        saltBits == dtMin(31, 32 - tileBits)
        c0 == [m_params |-> params,
               m_talloc |-> talloc,
               m_tcomp |-> tcomp,
               m_tileLutSize |-> lutSize,
               m_tileLutMask |-> lutSize - 1,
               m_tileBits |-> tileBits,
               m_saltBits |-> saltBits,
               m_tiles |-> [i \in 0..(params.maxTiles - 1) |->
                               EmptyCompressedTile],
               m_posLookup |-> [h \in 0..(lutSize - 1) |-> NULL_TILE],
               m_nextFreeTile |-> NULL_TILE,
               m_obstacles |-> [i \in 0..(params.maxObstacles - 1) |->
                                   EmptyObstacle],
               m_nextFreeObstacle |-> NULL_TILE,
               m_reqs |-> << >>,
               m_update |-> << >>]
        PushObstacle(c, i) ==
            [c EXCEPT !.m_obstacles[i].salt = 1,
                      !.m_obstacles[i].next = c.m_nextFreeObstacle,
                      !.m_nextFreeObstacle = i]
        PushTile(c, i) ==
            [c EXCEPT !.m_tiles[i].salt = 1,
                      !.m_tiles[i].next = c.m_nextFreeTile,
                      !.m_nextFreeTile = i]
        c1 == FoldSeq(PushObstacle, c0, RangeDown(0, params.maxObstacles))
    IN  [tc |-> FoldSeq(PushTile, c1, RangeDown(0, params.maxTiles)),
         status |-> IF saltBits < 10 THEN DT_FAILURE \cup DT_INVALID_PARAM
                    ELSE DT_SUCCESS]

tcBucket(c, tx, ty) ==
    ChainFrom(c.m_tiles, c.m_posLookup[computeTileHash(tx, ty, c.m_tileLutMask)],
              c.m_params.maxTiles)

tcFreeTiles(c) == ChainFrom(c.m_tiles, c.m_nextFreeTile, c.m_params.maxTiles)

tcFreeObstacles(c) ==
    ChainFrom(c.m_obstacles, c.m_nextFreeObstacle, c.m_params.maxObstacles)

tcGetTileRef(c, tile) ==
    IF tile = NULL_TILE THEN U32Zero
    ELSE encodeTileId(c, c.m_tiles[tile].salt, tile)

getObstacleRef(c, ob) ==
    IF ob = NULL_TILE THEN U32Zero
    ELSE encodeObstacleId(c.m_obstacles[ob].salt, ob)

\* the references of the tiles at (tx, ty), at most maxTiles of them
tcGetTilesAt(c, tx, ty, maxTiles) ==
    LET hit == SelectSeq(tcBucket(c, tx, ty),
                   LAMBDA t : /\ c.m_tiles[t].header # NULL_DATA
                              /\ CacheHeader(c.m_tiles[t].header).tx = tx
                              /\ CacheHeader(c.m_tiles[t].header).ty = ty)
    IN  [k \in 1..dtMin(Len(hit), maxTiles) |-> tcGetTileRef(c, hit[k])]

tcGetTileAt(c, tx, ty, tlayer) ==
    LET hit == SelectSeq(tcBucket(c, tx, ty),
                   LAMBDA t : /\ c.m_tiles[t].header # NULL_DATA
                              /\ CacheHeader(c.m_tiles[t].header).tx = tx
                              /\ CacheHeader(c.m_tiles[t].header).ty = ty
                              /\ CacheHeader(c.m_tiles[t].header).tlayer = tlayer)
    IN  IF hit = << >> THEN NULL_TILE ELSE Head(hit)

\* NULL_TILE for the null pointer
tcGetTileByRef(c, ref) ==
    IF ref = U32Zero THEN NULL_TILE
    ELSE IF decodeTileIdTile(c, ref) >= c.m_params.maxTiles THEN NULL_TILE
    ELSE IF c.m_tiles[decodeTileIdTile(c, ref)].salt # decodeTileIdSalt(c, ref)
    THEN NULL_TILE
    ELSE decodeTileIdTile(c, ref)

getObstacleByRef(c, ref) ==
    IF ref = U32Zero THEN NULL_TILE
    ELSE IF decodeObstacleIdObstacle(ref) >= c.m_params.maxObstacles
    THEN NULL_TILE
    ELSE IF c.m_obstacles[decodeObstacleIdObstacle(ref)].salt
                # decodeObstacleIdSalt(ref)
    THEN NULL_TILE
    ELSE decodeObstacleIdObstacle(ref)

(***************************************************************************)
(* dtTileCache::addTile and ::removeTile.  removeTile reads                *)
(* tile->header->tx without testing the header: for a reference that       *)
(* matches the salt of a free slot this is a null-pointer read (crash).    *)
(***************************************************************************)
tcAddTile(c, data, flags) ==
    LET header == CacheHeader(data)
        Fail(code) == [tc |-> c, status |-> DT_FAILURE \cup code,
                       result |-> U32Zero]
        tile == c.m_nextFreeTile
        h == computeTileHash(header.tx, header.ty, c.m_tileLutMask)
        c1 == [c EXCEPT !.m_nextFreeTile = c.m_tiles[tile].next,
                        !.m_tiles[tile].next = c.m_posLookup[h],
                        !.m_posLookup[h] = tile,
                        !.m_tiles[tile].header = data,
                        !.m_tiles[tile].flags = flags]
    IN  IF header.magic # DT_TILECACHE_MAGIC THEN Fail(DT_WRONG_MAGIC)
        ELSE IF header.version # DT_TILECACHE_VERSION THEN Fail(DT_WRONG_VERSION)
        ELSE IF tcGetTileAt(c, header.tx, header.ty, header.tlayer) # NULL_TILE
        THEN Fail({ })
        ELSE IF tile = NULL_TILE THEN Fail(DT_OUT_OF_MEMORY)
        ELSE [tc |-> c1, status |-> DT_SUCCESS, result |-> tcGetTileRef(c1, tile)]

\* a free that wraps the salt to zero
tcNextTileSaltNoSkip(c, salt) == (salt + 1) % Pow2(c.m_saltBits)

\* the salt of a freed compressed-tile slot
tcNextTileSalt(c, salt) ==
    LET s == (salt + 1) % Pow2(c.m_saltBits)
    IN  IF s = 0 THEN s + 1 ELSE s

tcRemoveFromBucket(c, tile) ==
    LET hdr == CacheHeader(c.m_tiles[tile].header)
        h == computeTileHash(hdr.tx, hdr.ty, c.m_tileLutMask)
        b == tcBucket(c, hdr.tx, hdr.ty)
        k == CHOOSE i \in 1..Len(b) : b[i] = tile
    IN  IF tile \notin SeqToSet(b) THEN c
        ELSE IF k = 1 THEN [c EXCEPT !.m_posLookup[h] = c.m_tiles[tile].next]
        ELSE [c EXCEPT !.m_tiles[b[k - 1]].next = c.m_tiles[tile].next]

tcRemoveTile(c, ref) ==
    LET Fail(code) == [tc |-> c, status |-> DT_FAILURE \cup code,
                       data |-> NULL_DATA, crash |-> FALSE]
        tileIndex == decodeTileIdTile(c, ref)
        tileSalt == decodeTileIdSalt(c, ref)
        tile == tileIndex
        c1 == tcRemoveFromBucket(c, tile)
        owned == c.m_tiles[tile].flags % 2 = DT_COMPRESSEDTILE_FREE_DATA
        c2 == [c1 EXCEPT
                  !.m_tiles[tile] =
                      [salt |-> tcNextTileSalt(c, c.m_tiles[tile].salt),
                       next |-> c1.m_nextFreeTile,
                       header |-> NULL_DATA, flags |-> 0],
                  !.m_nextFreeTile = tile]
    IN  IF ref = U32Zero THEN Fail(DT_INVALID_PARAM)
        ELSE IF tileIndex >= c.m_params.maxTiles THEN Fail(DT_INVALID_PARAM)
        ELSE IF c.m_tiles[tile].salt # tileSalt THEN Fail(DT_INVALID_PARAM)
        ELSE IF c.m_tiles[tile].header = NULL_DATA
        THEN [tc |-> c, status |-> { }, data |-> NULL_DATA, crash |-> TRUE]
        ELSE [tc |-> c2, status |-> DT_SUCCESS,
              data |-> IF owned THEN NULL_DATA ELSE c.m_tiles[tile].header,
              crash |-> FALSE]

(***************************************************************************)
(* Obstacles and requests.  The three addObstacle functions take a slot    *)
(* and queue an ADD request in the same way and differ in the geometry     *)
(* they write.                                                             *)
(***************************************************************************)
\* a queue test that lets one request too many in
takeObstacleOneMore(c, type, geom) ==
    LET Fail(code) == [tc |-> c, status |-> DT_FAILURE \cup code,
                       result |-> U32Zero]
        ob == c.m_nextFreeObstacle
        ref == getObstacleRef(c, ob)
        c1 == [c EXCEPT
                  !.m_nextFreeObstacle = c.m_obstacles[ob].next,
                  !.m_obstacles[ob] =
                      [salt |-> c.m_obstacles[ob].salt, state |-> "PROCESSING",
                       type |-> type, geom |-> geom, touched |-> << >>,
                       pending |-> << >>, next |-> NULL_TILE],
                  !.m_reqs = Append(@, [action |-> "ADD", ref |-> ref])]
    IN  IF Len(c.m_reqs) > MAX_REQUESTS THEN Fail(DT_BUFFER_TOO_SMALL)
        ELSE IF ob = NULL_TILE THEN Fail(DT_OUT_OF_MEMORY)
        ELSE [tc |-> c1, status |-> DT_SUCCESS, result |-> ref]

takeObstacle(c, type, geom) ==
    LET Fail(code) == [tc |-> c, status |-> DT_FAILURE \cup code,
                       result |-> U32Zero]
        ob == c.m_nextFreeObstacle
        ref == getObstacleRef(c, ob)
        c1 == [c EXCEPT
                  !.m_nextFreeObstacle = c.m_obstacles[ob].next,
                  !.m_obstacles[ob] =
                      [salt |-> c.m_obstacles[ob].salt, state |-> "PROCESSING",
                       type |-> type, geom |-> geom, touched |-> << >>,
                       pending |-> << >>, next |-> NULL_TILE],
                  !.m_reqs = Append(@, [action |-> "ADD", ref |-> ref])]
    IN  IF Len(c.m_reqs) >= MAX_REQUESTS THEN Fail(DT_BUFFER_TOO_SMALL)
        ELSE IF ob = NULL_TILE THEN Fail(DT_OUT_OF_MEMORY)
        ELSE [tc |-> c1, status |-> DT_SUCCESS, result |-> ref]

addObstacle(c, pos, radius, height) ==
    takeObstacle(c, "CYLINDER", [pos |-> pos, radius |-> radius, height |-> height])

addBoxObstacle(c, bmin, bmax) ==
    takeObstacle(c, "BOX", [bmin |-> bmin, bmax |-> bmax])

\* cos(y/2) and sin(-y/2) for y = halfTurns * pi
CosHalf(halfTurns) ==
    CASE halfTurns % 4 = 0 -> 1 [] halfTurns % 4 = 2 -> -1 [] OTHER -> 0

SinHalf(halfTurns) ==
    CASE halfTurns % 4 = 1 -> -1 [] halfTurns % 4 = 3 -> 1 [] OTHER -> 0

\* the rotation is given in half turns, and rotAux is kept doubled:
\* <<2 cos sin, 2 cos^2 - 1>>
addOrientedBoxObstacle(c, center, halfExtents, halfTurns) ==
    takeObstacle(c, "ORIENTED_BOX",
                 [center |-> center, halfExtents |-> halfExtents,
                  rotAux |-> <<2 * CosHalf(halfTurns) * SinHalf(halfTurns),
                               2 * CosHalf(halfTurns) * CosHalf(halfTurns) - 1>>])

removeObstacle(c, ref) ==
    IF ref = U32Zero THEN [tc |-> c, status |-> DT_SUCCESS]
    ELSE IF Len(c.m_reqs) >= MAX_REQUESTS
    THEN [tc |-> c, status |-> DT_FAILURE \cup DT_BUFFER_TOO_SMALL]
    ELSE [tc |-> [c EXCEPT !.m_reqs = Append(@, [action |-> "REMOVE",
                                                  ref |-> ref])],
          status |-> DT_SUCCESS]

calcTightTileBounds(c, header) ==
    [bmin |-> <<header.bmin[1] + header.minx * c.m_params.cs, header.bmin[2],
                header.bmin[3] + header.miny * c.m_params.cs>>,
     bmax |-> <<header.bmin[1] + (header.maxx + 1) * c.m_params.cs,
                header.bmax[2],
                header.bmin[3] + (header.maxy + 1) * c.m_params.cs>>]

\* 1.41f * r is rounded down to the unit of length
getObstacleBounds(ob) ==
    CASE ob.type = "CYLINDER" ->
             [bmin |-> <<ob.geom.pos[1] - ob.geom.radius, ob.geom.pos[2],
                         ob.geom.pos[3] - ob.geom.radius>>,
              bmax |-> <<ob.geom.pos[1] + ob.geom.radius,
                         ob.geom.pos[2] + ob.geom.height,
                         ob.geom.pos[3] + ob.geom.radius>>]
      [] ob.type = "BOX" -> [bmin |-> ob.geom.bmin, bmax |-> ob.geom.bmax]
      [] ob.type = "ORIENTED_BOX" ->
             LET maxr == (141 * dtMax(ob.geom.halfExtents[1],
                                      ob.geom.halfExtents[3])) \div 100
             IN  [bmin |-> <<ob.geom.center[1] - maxr,
                             ob.geom.center[2] - ob.geom.halfExtents[2],
                             ob.geom.center[3] - maxr>>,
                  bmax |-> <<ob.geom.center[1] + maxr,
                             ob.geom.center[2] + ob.geom.halfExtents[2],
                             ob.geom.center[3] + maxr>>]

\* the references of the tiles whose tight bounds overlap the box, ty-major
queryTiles(c, bmin, bmax, maxResults) ==
    LET tw == c.m_params.width * c.m_params.cs
        th == c.m_params.height * c.m_params.cs
        tx0 == (bmin[1] - c.m_params.orig[1]) \div tw
        tx1 == (bmax[1] - c.m_params.orig[1]) \div tw
        ty0 == (bmin[3] - c.m_params.orig[3]) \div th
        ty1 == (bmax[3] - c.m_params.orig[3]) \div th
        DoTile(results, ref) ==
            LET tb == calcTightTileBounds(
                          c, CacheHeader(c.m_tiles[decodeTileIdTile(c, ref)].header))
            IN  IF dtOverlapBounds(bmin, bmax, tb.bmin, tb.bmax)
                   /\ Len(results) < maxResults
                THEN Append(results, ref)
                ELSE results
        DoRow(results, ty) ==
            LET DoCell(rs, tx) ==
                    FoldSeq(DoTile, rs, tcGetTilesAt(c, tx, ty, MAX_TILES))
            IN  FoldSeq(DoCell, results, Range0(tx0, tx1 + 1))
    IN  FoldSeq(DoRow, << >>, Range0(ty0, ty1 + 1))

(***************************************************************************)
(* buildNavMeshTile.  The layer decompressor, the obstacle rasterisers,    *)
(* the region, contour and polygon-mesh builders and dtCreateNavMeshData   *)
(* are external: outcome says how they end.                                *)
(*   kind "fail"        one of the steps before the mesh exists fails and  *)
(*                      its status (outcome.status) is returned            *)
(*   kind "empty"       the polygon mesh has no polygon                    *)
(*   kind "createFail"  dtCreateNavMeshData returns false                  *)
(*   kind "ok"          navData is BuiltMesh of the layer                  *)
(* outcome.past says whether the word read for the salt of the slot past   *)
(* the end of m_tiles (idx = maxTiles passes the range test) equals the    *)
(* salt of the reference.  A slot without payload (free, with the salt of  *)
(* the reference) has null data and a null header: the decompressor fails  *)
(* or the header is read through the null pointer (crash).                 *)
(***************************************************************************)
\* the mesh payload built from a layer: (0,0) gives the two polygons of
\* PayloadA, or the single one of PayloadA2 when an obstacle was rasterised;
\* (1,0) gives PayloadB
BuiltMesh(header, carved) ==
    IF header.tx = 0 THEN (IF carved THEN 4 ELSE 1) ELSE 2

BuildOutcomes ==
    {[kind |-> k, status |-> DT_FAILURE \cup DT_OUT_OF_MEMORY, past |-> FALSE] :
         k \in {"fail", "empty", "createFail", "ok"}}

\* the obstacle slots whose obstacle is rasterised into the layer of ref
Rasterized(c, ref) ==
    {i \in 0..(c.m_params.maxObstacles - 1) :
        /\ c.m_obstacles[i].state \notin {"EMPTY", "REMOVING"}
        /\ contains(c.m_obstacles[i].touched, ref)}

buildNavMeshTile(c, n, ref, outcome) ==
    LET Fail(code) == [nav |-> n, status |-> DT_FAILURE \cup code,
                       crash |-> FALSE]
        Crash == [nav |-> n, status |-> { }, crash |-> TRUE]
        idx == decodeTileIdTile(c, ref)
        tile == c.m_tiles[idx]
        header == CacheHeader(tile.header)
        carved == Rasterized(c, ref) # { }
        Added(added) ==
            IF dtStatusFailed(added.status)
            THEN [nav |-> added.nav, status |-> added.status, crash |-> FALSE]
            ELSE [nav |-> added.nav, status |-> DT_SUCCESS, crash |-> FALSE]
        \* removed is the navmesh without the tile of this position, added
        \* what addTile returns for the mesh built
        Built(removed, added) ==
            IF outcome.kind = "empty"
            THEN [nav |-> removed, status |-> DT_SUCCESS, crash |-> FALSE]
            ELSE IF outcome.kind = "createFail"
            THEN [nav |-> n, status |-> DT_FAILURE, crash |-> FALSE]
            ELSE Added(added)
    IN  IF ~c.m_talloc \/ ~c.m_tcomp THEN Fail(DT_INVALID_PARAM)
        ELSE IF idx > c.m_params.maxTiles THEN Fail(DT_INVALID_PARAM)
        ELSE IF idx = c.m_params.maxTiles
        THEN (IF outcome.past THEN Crash ELSE Fail(DT_INVALID_PARAM))
        ELSE IF tile.salt # decodeTileIdSalt(c, ref) THEN Fail(DT_INVALID_PARAM)
        ELSE IF outcome.kind = "fail"
        THEN [nav |-> n, status |-> outcome.status, crash |-> FALSE]
        ELSE IF tile.header = NULL_DATA THEN Crash
        ELSE Built(removeTile(n, getTileRefAt(n, header.tx, header.ty,
                                              header.tlayer)).nav,
                   addTile(removeTile(n, getTileRefAt(n, header.tx, header.ty,
                                                      header.tlayer)).nav,
                           BuiltMesh(header, carved), DT_TILE_FREE_DATA,
                           U32Zero))

(***************************************************************************)
(* update.  Returns [tc, nav, status, upToDate, crash, builds], builds the  *)
(* references buildNavMeshTile was called with, in order.                  *)
(***************************************************************************)
\* a free that wraps the obstacle salt to zero
NextObstacleSaltNoSkip(salt) == (salt + 1) % 65536

\* the salt of a freed obstacle slot
NextObstacleSalt(salt) ==
    LET s == (salt + 1) % 65536
    IN  IF s = 0 THEN s + 1 ELSE s

\* the tiles of an obstacle appended to the rebuild list whether they are on
\* it or not
queueTouchedTwice(c, idx) ==
    LET Step(cc, ref) ==
            IF Len(cc.m_update) < MAX_UPDATE
            THEN [cc EXCEPT
                     !.m_update = Append(@, ref),
                     !.m_obstacles[idx].pending = Append(@, ref)]
            ELSE cc
    IN  FoldSeq(Step, [c EXCEPT !.m_obstacles[idx].pending = << >>],
                c.m_obstacles[idx].touched)

\* the tiles of an obstacle go to the rebuild list and to its pending list
\* while the rebuild list has room
queueTouched(c, idx) ==
    LET Step(cc, ref) ==
            IF Len(cc.m_update) < MAX_UPDATE
            THEN [cc EXCEPT
                     !.m_update = IF contains(@, ref) THEN @ ELSE Append(@, ref),
                     !.m_obstacles[idx].pending = Append(@, ref)]
            ELSE cc
    IN  FoldSeq(Step, [c EXCEPT !.m_obstacles[idx].pending = << >>],
                c.m_obstacles[idx].touched)

processRequest(c, req) ==
    LET idx == decodeObstacleIdObstacle(req.ref)
        ob == c.m_obstacles[idx]
        b == getObstacleBounds(ob)
        touched == queryTiles(c, b.bmin, b.bmax, DT_MAX_TOUCHED_TILES)
    IN  IF idx >= c.m_params.maxObstacles THEN c
        ELSE IF ob.salt # decodeObstacleIdSalt(req.ref) THEN c
        ELSE IF req.action = "ADD"
        THEN queueTouched([c EXCEPT !.m_obstacles[idx].touched = touched], idx)
        ELSE queueTouched([c EXCEPT !.m_obstacles[idx].state = "REMOVING"], idx)

\* pending without its first entry equal to ref: the last entry takes its place
dropPending(pending, ref) ==
    IF ~contains(pending, ref) THEN pending
    ELSE LET j == CHOOSE k \in 1..Len(pending) :
                      pending[k] = ref /\ \A o \in 1..(k - 1) : pending[o] # ref
         IN  SubSeq([pending EXCEPT ![j] = pending[Len(pending)]],
                    1, Len(pending) - 1)

\* the obstacle after the tile ref has been rebuilt
settleObstacle(c, i, ref) ==
    LET ob == c.m_obstacles[i]
        pending == dropPending(ob.pending, ref)
    IN  IF ob.state \notin {"PROCESSING", "REMOVING"} THEN c
        ELSE IF pending # << >>
        THEN [c EXCEPT !.m_obstacles[i].pending = pending]
        ELSE IF ob.state = "PROCESSING"
        THEN [c EXCEPT !.m_obstacles[i].pending = pending,
                       !.m_obstacles[i].state = "PROCESSED"]
        ELSE [c EXCEPT !.m_obstacles[i].pending = pending,
                       !.m_obstacles[i].state = "EMPTY",
                       !.m_obstacles[i].salt = NextObstacleSalt(ob.salt),
                       !.m_obstacles[i].next = c.m_nextFreeObstacle,
                       !.m_nextFreeObstacle = i]

\* a first phase that processes the requests whatever the rebuild list holds
processRequestsAlways(c) ==
    [FoldSeq(processRequest, c, c.m_reqs) EXCEPT !.m_reqs = << >>]

\* the first phase of update: the queued requests are processed when the
\* rebuild list is empty
processRequests(c) ==
    IF c.m_update = << >>
    THEN [FoldSeq(processRequest, c, c.m_reqs) EXCEPT !.m_reqs = << >>]
    ELSE c

\* the head of the rebuild list is taken off once it has been built
popUpdateAll(c) == [c EXCEPT !.m_update = << >>]

\* a rebuild list that keeps its head
popUpdateKept(c) == c

popUpdate(c) == [c EXCEPT !.m_update = Tail(@)]

\* what update writes to upToDate
isUpToDateList(c) == c.m_update = << >>

isUpToDate(c) == c.m_update = << >> /\ c.m_reqs = << >>

update(c, n, outcome) ==
    LET \* c1 is the cache once the requests are processed, b what the build
        \* of the first tile of the rebuild list has returned and c3 the
        \* cache once that tile is off the list and the obstacles are settled
        Rebuilt(c1, b, c3) ==
            IF c1.m_update = << >>
            THEN [tc |-> c1, nav |-> n, status |-> DT_SUCCESS,
                  upToDate |-> isUpToDate(c1), crash |-> FALSE,
                  builds |-> << >>]
            ELSE IF b.crash
            THEN [tc |-> c1, nav |-> n, status |-> { }, upToDate |-> FALSE,
                  crash |-> TRUE, builds |-> <<Head(c1.m_update)>>]
            ELSE [tc |-> c3, nav |-> b.nav, status |-> b.status,
                  upToDate |-> isUpToDate(c3),
                  crash |-> FALSE, builds |-> <<Head(c1.m_update)>>]
        Settled(c1) ==
            FoldSeq(LAMBDA cc, i : settleObstacle(cc, i, Head(c1.m_update)),
                    popUpdate(c1),
                    Range0(0, c.m_params.maxObstacles))
    IN  Rebuilt(processRequests(c),
                buildNavMeshTile(processRequests(c), n,
                                 Head(processRequests(c).m_update), outcome),
                Settled(processRequests(c)))

(***************************************************************************)
(* The caller.  last is the call just made: the operation, the status      *)
(* returned and whether the call ended the process (crash).  hist is a     *)
(* history variable: a reference whose tile was removed (stale, 0 = none), *)
(* the payload removeTile handed back for it (data), the polygon count of  *)
(* the removed tile, the number of times its slot was freed since, that    *)
(* removal included (frees), and whether the tile was added again with     *)
(* lastRef = stale (restored).  hist.state is the buffer the caller hands   *)
(* to storeTileState and restoreTileState.  hist.built holds, for every     *)
(* layer reference whose build has succeeded, the obstacles the last such  *)
(* build rasterised (kept by the calls of update that track it).           *)
(***************************************************************************)
NoCall ==
    [op |-> "init", status |-> DT_SUCCESS, crash |-> FALSE]

NoHist ==
    [stale |-> U32Zero, data |-> NULL_DATA, polyCount |-> 0, frees |-> 0,
     restored |-> FALSE, state |-> NoState, built |-> { }]

MaxSalt(n) == Pow2(n.m_saltBits) - 1

IsLive(n, it) == n.m_tiles[it].header # NULL_DATA

LiveTiles(n) == {it \in 0..(n.m_maxTiles - 1) : IsLive(n, it)}

AddTile(data, flags, lastRef) ==
    /\ ~last.crash
    /\ LET Returned(r) ==
               /\ nav' = r.nav
               /\ last' = [op |-> "addTile", status |-> r.status,
                           crash |-> FALSE]
               /\ hist' = IF /\ dtStatusSucceed(r.status)
                             /\ lastRef # U32Zero
                             /\ lastRef = hist.stale
                          THEN [hist EXCEPT !.restored = TRUE]
                          ELSE hist
       IN  Returned(addTile(nav, data, flags, lastRef))
    /\ UNCHANGED tc

RemoveTile(ref, track) ==
    /\ ~last.crash
    /\ LET Returned(r, ok, it) ==
               /\ nav' = r.nav
               /\ last' = [op |-> "removeTile", status |-> r.status,
                           crash |-> r.crash]
               /\ hist' = IF ok /\ hist.stale = U32Zero /\ track
                          THEN [stale |-> ref, data |-> r.data,
                                polyCount |-> nav.m_tiles[it].hdr.polyCount,
                                frees |-> 1, restored |-> FALSE,
                                state |-> hist.state, built |-> hist.built]
                          ELSE IF /\ ok /\ hist.stale # U32Zero
                                  /\ it = decodePolyIdTile(nav, hist.stale)
                          THEN [hist EXCEPT !.frees = @ + 1]
                          ELSE hist
           Call(r) == Returned(r, dtStatusSucceed(r.status),
                               decodePolyIdTile(nav, ref))
       IN  Call(removeTile(nav, ref))
    /\ UNCHANGED tc

\* the tile-state calls on the slot tile with a buffer of maxDataSize bytes,
\* and the polygon setters
StoreTileState(tile, maxDataSize) ==
    /\ ~last.crash
    /\ LET Returned(r) ==
               /\ hist' = [hist EXCEPT !.state = r.data]
               /\ last' = [op |-> "storeTileState", status |-> r.status,
                           crash |-> FALSE, tile |-> tile,
                           size |-> maxDataSize]
       IN  Returned(storeTileState(nav, tile, hist.state, maxDataSize))
    /\ UNCHANGED <<nav, tc>>

RestoreTileState(tile, maxDataSize) ==
    /\ ~last.crash
    /\ LET Returned(r) ==
               /\ nav' = r.nav
               /\ last' = [op |-> "restoreTileState", status |-> r.status,
                           crash |-> FALSE, tile |-> tile,
                           size |-> maxDataSize]
       IN  Returned(restoreTileState(nav, tile, hist.state, maxDataSize))
    /\ UNCHANGED <<tc, hist>>

SetPolyFlags(ref, flags) ==
    /\ ~last.crash
    /\ LET Returned(r) ==
               /\ nav' = r.nav
               /\ last' = [op |-> "setPolyFlags", status |-> r.status,
                           crash |-> FALSE]
       IN  Returned(setPolyFlags(nav, ref, flags))
    /\ UNCHANGED <<tc, hist>>

SetPolyArea(ref, area) ==
    /\ ~last.crash
    /\ LET Returned(r) ==
               /\ nav' = r.nav
               /\ last' = [op |-> "setPolyArea", status |-> r.status,
                           crash |-> FALSE]
       IN  Returned(setPolyArea(nav, ref, area))
    /\ UNCHANGED <<tc, hist>>

\* the calls of the tile cache
Shape(ob) == [type |-> ob.type, geom |-> ob.geom]

\* built once the build of ref in the cache c has succeeded
LastBuilt(built, c, ref) ==
    {b \in built : b.ref # ref}
    \cup {[ref |-> ref,
           obs |-> {Shape(c.m_obstacles[i]) : i \in Rasterized(c, ref)}]}

TcAddTile(data, flags) ==
    /\ ~last.crash
    /\ LET Returned(r) ==
               /\ tc' = r.tc
               /\ last' = [op |-> "tcAddTile", status |-> r.status, crash |-> FALSE]
       IN  Returned(tcAddTile(tc, data, flags))
    /\ UNCHANGED <<nav, hist>>

TcRemoveTile(ref) ==
    /\ ~last.crash
    /\ LET Returned(r) ==
               /\ tc' = r.tc
               /\ last' = [op |-> "tcRemoveTile", status |-> r.status,
                           crash |-> r.crash]
       IN  Returned(tcRemoveTile(tc, ref))
    /\ UNCHANGED <<nav, hist>>

AddObstacle(o) ==
    /\ ~last.crash
    /\ LET Returned(r) ==
               /\ tc' = r.tc
               /\ last' = [op |-> "addObstacle", status |-> r.status,
                           crash |-> FALSE]
       IN  Returned(addObstacle(tc, o.pos, o.radius, o.height))
    /\ UNCHANGED <<nav, hist>>

AddBoxObstacle(o) ==
    /\ ~last.crash
    /\ LET Returned(r) ==
               /\ tc' = r.tc
               /\ last' = [op |-> "addBoxObstacle", status |-> r.status,
                           crash |-> FALSE]
       IN  Returned(addBoxObstacle(tc, o.bmin, o.bmax))
    /\ UNCHANGED <<nav, hist>>

AddOrientedBoxObstacle(o) ==
    /\ ~last.crash
    /\ LET Returned(r) ==
               /\ tc' = r.tc
               /\ last' = [op |-> "addOrientedBoxObstacle", status |-> r.status,
                           crash |-> FALSE]
       IN  Returned(addOrientedBoxObstacle(tc, o.center, o.halfExtents, o.halfTurns))
    /\ UNCHANGED <<nav, hist>>

RemoveObstacle(ref) ==
    /\ ~last.crash
    /\ LET Returned(r) ==
               /\ tc' = r.tc
               /\ last' = [op |-> "removeObstacle", status |-> r.status,
                           crash |-> FALSE, ref |-> ref]
       IN  Returned(removeObstacle(tc, ref))
    /\ UNCHANGED <<nav, hist>>

Update(outcome, track) ==
    /\ ~last.crash
    /\ LET Returned(r) ==
               /\ tc' = r.tc
               /\ nav' = r.nav
               /\ last' = [op |-> "update", status |-> r.status, crash |-> r.crash,
                           upToDate |-> r.upToDate, builds |-> r.builds]
               /\ hist' = IF track /\ r.builds # << >> /\ dtStatusSucceed(r.status)
                          THEN [hist EXCEPT !.built =
                                   LastBuilt(@, processRequests(tc), r.builds[1])]
                          ELSE hist
       IN  Returned(update(tc, nav, outcome))

(***************************************************************************)
(* The arguments the caller is given.                                      *)
(***************************************************************************)
\* lastRef: none; salt 1 with every slot index the tile field can hold (the
\* last ones are past the last slot); salt 0, slot 0 with a non-zero
\* polygon field.
LastRefs(n) ==
    {U32Zero}
    \cup {encodePolyId(n, 1, it, 0) : it \in 0..(Pow2(n.m_tileBits) - 1)}
    \cup {encodePolyId(n, 0, 0, 1)}

WellFormed == {d \in PayloadIds : /\ Header(d).magic = DT_NAVMESH_MAGIC
                                  /\ Header(d).version = DT_NAVMESH_VERSION}

\* the payload of the upper layer is handed over to the mesh
\* (DT_TILE_FREE_DATA), the others stay with the caller
AddFlags(data) == IF Header(data).layer > 0 THEN DT_TILE_FREE_DATA ELSE 0

\* addTile under Spec: the payloads at (0,0,0) and (1,0,0) with every
\* lastRef; those at (0,0,1) and (0,1,0) fresh; the one with three polygons
\* and the one with the wrong magic fresh and with a lastRef; the one with
\* the wrong version fresh.
AddInputs(n) ==
    {<<d, AddFlags(d), r>> : d \in {1, 2}, r \in LastRefs(n)}
    \cup {<<d, AddFlags(d), U32Zero>> : d \in {3, 6, 8}}
    \cup {<<d, AddFlags(d), r>> :
              d \in {5, 7}, r \in {U32Zero, encodePolyId(n, 1, 0, 0)}}

\* removeTile: 0; the reference of every slot (of a free slot it is the
\* reference that matches its current salt); the same with the salt before;
\* an index past the last slot.
RemoveRefs(n) ==
    {U32Zero}
    \cup {getTileRefOf(n, it) : it \in 0..(n.m_maxTiles - 1)}
    \cup {encodePolyId(n, n.m_tiles[it].salt - 1, it, 0) :
              it \in {i \in 0..(n.m_maxTiles - 1) : n.m_tiles[i].salt > 0}}
    \cup {encodePolyId(n, 1, it, 0) :
              it \in n.m_maxTiles..(Pow2(n.m_tileBits) - 1)}

\* a live slot is removed while its salt is inside the explored window
InWindow(n, ref) ==
    LET it == decodePolyIdTile(n, ref)
    IN  (/\ it < n.m_maxTiles
         /\ IsLive(n, it)
         /\ n.m_tiles[it].salt = decodePolyIdSalt(n, ref))
            => n.m_tiles[it].salt <= SaltWindow

(***************************************************************************)
(* Specification Spec: a mesh of MaxTiles slots and MaxPolys polygons per  *)
(* tile, any calls.                                                        *)
(***************************************************************************)
NewCache == tcInit(CacheParams(MaxTiles, MaxObstacles), TRUE, TRUE).tc

Init ==
    /\ nav = init([maxTiles |-> MaxTiles, maxPolys |-> MaxPolys]).nav
    /\ tc = NewCache
    /\ last = NoCall
    /\ hist = NoHist

Next ==
    \/ \E a \in AddInputs(nav) : AddTile(a[1], a[2], a[3])
    \/ \E ref \in RemoveRefs(nav), track \in {FALSE} :
           InWindow(nav, ref) /\ RemoveTile(ref, track)

Spec == Init /\ [][Next]_vars

(***************************************************************************)
(* Specification SpecCycle: a mesh with the narrowest salt init accepts.   *)
(* The caller adds tiles at (0,0,0) without lastRef and removes them, with *)
(* the current reference or with the first one it removed (hist.stale), so *)
(* that slot 0 is freed again and again.                                   *)
(***************************************************************************)
InitCycle ==
    /\ nav = init([maxTiles |-> MaxTiles, maxPolys |-> CyclePolys]).nav
    /\ tc = NewCache
    /\ last = NoCall
    /\ hist = NoHist

NextCycle ==
    \/ \E d \in {1, 4} : AddTile(d, 0, U32Zero)
    \/ \E ref \in {getTileRefOf(nav, 0), hist.stale} :
           /\ IsLive(nav, 0)
           /\ hist.frees < CycleFrees
           /\ RemoveTile(ref, TRUE)

SpecCycle == InitCycle /\ [][NextCycle]_vars

(***************************************************************************)
(* Specification SpecRestore: the caller keeps the payloads (no            *)
(* DT_TILE_FREE_DATA), adds the two payloads at (0,0,0) and the one at     *)
(* (1,0,0) without lastRef, removes live tiles, and adds the payload that  *)
(* removeTile handed back again with the removed reference as lastRef.     *)
(***************************************************************************)
NextRestore ==
    \/ \E d \in {1, 2, 4} : AddTile(d, 0, U32Zero)
    \/ /\ hist.stale # U32Zero
       /\ ~hist.restored
       /\ AddTile(hist.data, 0, hist.stale)
    \/ \E it \in LiveTiles(nav), track \in BOOLEAN :
           /\ InWindow(nav, getTileRefOf(nav, it))
           /\ RemoveTile(getTileRefOf(nav, it), track)

SpecRestore == Init /\ [][NextRestore]_vars

(***************************************************************************)
(* Specification SpecColumn: a mesh of ColumnTiles slots.  The caller      *)
(* fills the column (0,0) from ColumnOrder: (0,0,1) with its off-mesh      *)
(* connection down to (0,0,0), then (0,0,0), then the layers above; it     *)
(* removes either of the first two.                                        *)
(***************************************************************************)
ColumnOrder == <<3, 1>> \o [k \in 1..(ColumnTiles - 2) |-> 8 + k]

InitColumn ==
    /\ nav = init([maxTiles |-> ColumnTiles, maxPolys |-> MaxPolys]).nav
    /\ tc = NewCache
    /\ last = NoCall
    /\ hist = NoHist

\* the next payload of ColumnOrder whose position holds no tile
NextOfColumn(n) ==
    LET absent == {k \in 1..Len(ColumnOrder) :
                      getTileAt(n, Header(ColumnOrder[k]).x,
                                Header(ColumnOrder[k]).y,
                                Header(ColumnOrder[k]).layer) = NULL_TILE}
    IN  IF absent = { } THEN NULL_DATA
        ELSE ColumnOrder[CHOOSE k \in absent : \A o \in absent : k <= o]

NextColumn ==
    \/ /\ NextOfColumn(nav) # NULL_DATA
       /\ AddTile(NextOfColumn(nav), AddFlags(NextOfColumn(nav)), U32Zero)
    \/ \E it \in LiveTiles(nav) :
           /\ nav.m_tiles[it].header \in {ColumnOrder[1], ColumnOrder[2]}
           /\ InWindow(nav, getTileRefOf(nav, it))
           /\ RemoveTile(getTileRefOf(nav, it), FALSE)

SpecColumn == InitColumn /\ [][NextColumn]_vars

(***************************************************************************)
(* Specification SpecTC: a tile cache of MaxTiles tile slots and           *)
(* MaxObstacles obstacle slots over a mesh of MaxTiles slots.  It starts   *)
(* after construction, or after the many frees that have brought the salt  *)
(* of every slot of the three pools to the largest value of its field.     *)
(* The caller adds and removes the layer (0,0) (and offers the two         *)
(* malformed layers) while no request, rebuild or obstacle is pending,     *)
(* adds a cylinder on the border of (0,0), a box inside it and an oriented *)
(* box far from it, removes obstacles and calls update.                    *)
(***************************************************************************)
AgedNav(n) ==
    [n EXCEPT !.m_tiles = [i \in DOMAIN @ |-> [@[i] EXCEPT !.salt = MaxSalt(n)]]]

AgedCache(c) ==
    [c EXCEPT !.m_tiles = [i \in DOMAIN @ |->
                              [@[i] EXCEPT !.salt = Pow2(c.m_saltBits) - 1]],
              !.m_obstacles = [i \in DOMAIN @ |-> [@[i] EXCEPT !.salt = 65535]]]

InitTC ==
    /\ \E aged \in BOOLEAN :
           LET n == init([maxTiles |-> MaxTiles, maxPolys |-> MaxPolys]).nav
           IN  /\ nav = IF aged THEN AgedNav(n) ELSE n
               /\ tc = IF aged THEN AgedCache(NewCache) ELSE NewCache
    /\ last = NoCall
    /\ hist = NoHist

Cylinders == {[pos |-> <<1000, 0, 500>>, radius |-> 100, height |-> 200]}

Boxes == {[bmin |-> <<200, 0, 200>>, bmax |-> <<400, 100, 400>>]}

OrientedBoxes ==
    {[center |-> <<5000, 0, 5000>>, halfExtents |-> <<100, 100, 100>>,
      halfTurns |-> 1]}

\* the salt of a slot is one the caller's frees are explored for
SaltInWindow(salt, max) == salt <= SaltWindow \/ salt = max

TcRemoveRefs(c) ==
    {U32Zero}
    \cup {tcGetTileRef(c, it) : it \in 0..(c.m_params.maxTiles - 1)}

TcInWindow(c, ref) ==
    LET it == decodeTileIdTile(c, ref)
    IN  (/\ it < c.m_params.maxTiles
         /\ c.m_tiles[it].header # NULL_DATA
         /\ c.m_tiles[it].salt = decodeTileIdSalt(c, ref))
            => SaltInWindow(c.m_tiles[it].salt, Pow2(c.m_saltBits) - 1)

\* room in the queue as the caller uses it, and a next obstacle slot (if
\* any) whose salt is in the window
MayRequest(c) == Len(c.m_reqs) < MaxReqs

MayAddObstacle(c) ==
    /\ MayRequest(c)
    /\ c.m_nextFreeObstacle # NULL_TILE
           => SaltInWindow(c.m_obstacles[c.m_nextFreeObstacle].salt, 65535)

\* removeObstacle: 0 and the references of the obstacles in use
ObstacleRefs(c) ==
    {U32Zero}
    \cup {getObstacleRef(c, i) :
              i \in {o \in 0..(c.m_params.maxObstacles - 1) :
                         c.m_obstacles[o].state # "EMPTY"}}

\* nothing is queued and every obstacle slot is EMPTY
Quiet(c) ==
    /\ c.m_reqs = << >>
    /\ c.m_update = << >>
    /\ \A i \in 0..(c.m_params.maxObstacles - 1) :
           c.m_obstacles[i].state = "EMPTY"

NextTC ==
    \/ \E d \in CachePayloadIds \ {2} : Quiet(tc) /\ TcAddTile(d, 0)
    \/ \E ref \in TcRemoveRefs(tc) :
           Quiet(tc) /\ TcInWindow(tc, ref) /\ TcRemoveTile(ref)
    \/ \E o \in Cylinders : MayAddObstacle(tc) /\ AddObstacle(o)
    \/ \E o \in Boxes : MayAddObstacle(tc) /\ AddBoxObstacle(o)
    \/ \E o \in OrientedBoxes : MayAddObstacle(tc) /\ AddOrientedBoxObstacle(o)
    \/ \E ref \in ObstacleRefs(tc) : MayRequest(tc) /\ RemoveObstacle(ref)
    \/ \E outcome \in BuildOutcomes : Update(outcome, FALSE)

SpecTC == InitTC /\ [][NextTC]_vars

(***************************************************************************)
(* Specification SpecState: a mesh of two slots.  The caller adds the      *)
(* two-polygon tiles of (0,0,0) and (0,0,1), fresh or with the reference   *)
(* its buffer holds as lastRef, removes tiles, stores and restores the     *)
(* state of a live tile with a buffer of the exact size or one byte less,  *)
(* and sets the flags of the first polygon and the area of the second (an  *)
(* area above 63 too).                                                     *)
(***************************************************************************)
StateTiles == 2
\* the slot of the first tile removed is freed at most this many times
StateFrees == 2

InitState ==
    /\ nav = init([maxTiles |-> StateTiles, maxPolys |-> MaxPolys]).nav
    /\ tc = NewCache
    /\ last = NoCall
    /\ hist = NoHist

StateSizes(n, tile) == {getTileStateSize(n, tile), getTileStateSize(n, tile) - 1}

NextState ==
    \/ \E d \in {1, 3}, r \in {U32Zero, hist.state.ref} :
           AddTile(d, 0, r)
    \/ \E it \in LiveTiles(nav) :
           /\ nav.m_tiles[it].salt <= SaltWindow
           /\ hist.frees < StateFrees
           /\ RemoveTile(getTileRefOf(nav, it), TRUE)
    \/ \E it \in LiveTiles(nav) :
           \E size \in StateSizes(nav, it) : StoreTileState(it, size)
    \/ \E it \in LiveTiles(nav) :
           \E size \in StateSizes(nav, it) : RestoreTileState(it, size)
    \/ \E it \in LiveTiles(nav), flags \in {1, 2} :
           SetPolyFlags(encodePolyId(nav, nav.m_tiles[it].salt, it, 0), flags)
    \/ \E it \in LiveTiles(nav), area \in {0, 70} :
           SetPolyArea(encodePolyId(nav, nav.m_tiles[it].salt, it, 1), area)

SpecState == InitState /\ [][NextState]_vars

(***************************************************************************)
(* Properties of the mesh, stated without the lookups of the code: a slot  *)
(* is live when its header is set, and a position is occupied when some    *)
(* live slot's header carries it.                                          *)
(***************************************************************************)
Slots(n) == 0..(n.m_maxTiles - 1)

PositionOf(data) == <<Header(data).x, Header(data).y, Header(data).layer>>

Occupied(n, data) ==
    \E it \in LiveTiles(n) : PositionOf(n.m_tiles[it].header) = PositionOf(data)

\* the payload passes the tests of its header against the mesh
PayloadAccepted(n, data) ==
    /\ Header(data).magic = DT_NAVMESH_MAGIC
    /\ Header(data).version = DT_NAVMESH_VERSION
    /\ Header(data).polyCount <= Pow2(n.m_polyBits)

\* references probed: every tile and polygon field, the salts 0..2
ProbeRefs(n) ==
    {encodePolyId(n, s, it, ip) :
         s \in 0..2, it \in 0..(Pow2(n.m_tileBits) - 1),
         ip \in 0..(Pow2(n.m_polyBits) - 1)}

PolyRefOf(n, it, i) == U32Or(getPolyRefBase(n, it), U32(i))

\* C1: a reference validates and dereferences exactly when its tile index is
\* below maxTiles, its salt is the slot's, the slot is live and its polygon
\* index is below the tile's polyCount, and then to that slot and polygon;
\* every polygon reference built from getPolyRefBase of a live tile does.
C1_RefValidity ==
    /\ \A r \in ProbeRefs(nav) :
           LET it == decodePolyIdTile(nav, r)
               ip == decodePolyIdPoly(nav, r)
               g == getTileAndPolyByRef(nav, r)
               holds == /\ it < nav.m_maxTiles
                        /\ nav.m_tiles[it].salt = decodePolyIdSalt(nav, r)
                        /\ IsLive(nav, it)
                        /\ ip < Header(nav.m_tiles[it].header).polyCount
           IN  /\ isValidPolyRef(nav, r) <=> holds
               /\ dtStatusSucceed(g.status) <=> holds
               /\ dtStatusSucceed(g.status) => g.tile = it /\ g.poly = ip
    /\ \A it \in LiveTiles(nav) :
           \A i \in 0..(Header(nav.m_tiles[it].header).polyCount - 1) :
               LET g == getTileAndPolyByRef(nav, PolyRefOf(nav, it, i))
               IN  /\ isValidPolyRef(nav, PolyRefOf(nav, it, i))
                   /\ dtStatusSucceed(g.status) /\ g.tile = it /\ g.poly = i

\* C3: the salt of every live slot is non-zero, and getTileRef of a live
\* tile is not 0.
C3_LiveSaltNonZero ==
    \A it \in LiveTiles(nav) :
        nav.m_tiles[it].salt # 0 /\ getTileRef(nav, it) # U32Zero

\* C5: no two live tiles have the same (x, y, layer), and addTile of a
\* payload (one that passes the header tests, which come first) at an
\* occupied position fails with ALREADY_OCCUPIED, with and without lastRef.
C5_UniquePositions ==
    /\ \A a, b \in LiveTiles(nav) :
           a # b => PositionOf(nav.m_tiles[a].header)
                        # PositionOf(nav.m_tiles[b].header)
    /\ \A a \in AddInputs(nav) :
           PayloadAccepted(nav, a[1]) /\ Occupied(nav, a[1])
               => addTile(nav, a[1], a[2], a[3]).status
                      = DT_FAILURE \cup DT_ALREADY_OCCUPIED

C5_Witness ==
    /\ last.op = "addTile"
    /\ last.status = DT_FAILURE \cup DT_ALREADY_OCCUPIED
    /\ Cardinality(LiveTiles(nav)) >= 2

\* the rejection the ordered tests of C6 give, { } when none of them rejects
ExpectedRejection(n, data) ==
    IF Header(data).magic # DT_NAVMESH_MAGIC THEN DT_WRONG_MAGIC
    ELSE IF Header(data).version # DT_NAVMESH_VERSION THEN DT_WRONG_VERSION
    ELSE IF Header(data).polyCount > Pow2(n.m_polyBits) THEN DT_INVALID_PARAM
    ELSE IF Occupied(n, data) THEN DT_ALREADY_OCCUPIED
    ELSE IF LiveTiles(n) = Slots(n) THEN DT_OUT_OF_MEMORY
    ELSE { }

\* C6: addTile rejects with the code of the first test that fails, in the
\* order magic, version, polygon count above 2^poly_bits, occupied position,
\* no free slot; a fresh add that none of them rejects succeeds.
C6_RejectionOrder ==
    \A a \in AddInputs(nav) :
        LET e == ExpectedRejection(nav, a[1])
            status == addTile(nav, a[1], a[2], a[3]).status
        IN  IF e # { } THEN status = DT_FAILURE \cup e
            ELSE a[3] = U32Zero => status = DT_SUCCESS

C6_Witness ==
    /\ last.op = "addTile"
    /\ last.status = DT_FAILURE \cup DT_OUT_OF_MEMORY
    /\ LiveTiles(nav) = Slots(nav)
    /\ \E it \in LiveTiles(nav) :
           Header(nav.m_tiles[it].header).polyCount = Pow2(nav.m_polyBits)

\* C7: a failing addTile leaves the mesh (free list, position hash, every
\* slot and every link chain) as it was.
C7_FailureFrame ==
    [][(last'.op = "addTile" /\ dtStatusFailed(last'.status)) => nav' = nav]_vars

C7_Witness ==
    /\ last.op = "addTile"
    /\ dtStatusFailed(last.status)
    /\ Cardinality(LiveTiles(nav)) >= 2
    /\ \E it \in LiveTiles(nav) : nav.m_tiles[it].firstLink[1] # DT_NULL_LINK

\* C10: addTile with a lastRef (of a payload the earlier tests accept at a
\* free position) takes the slot of lastRef's tile field or fails with
\* OUT_OF_MEMORY and changes nothing; on success the free list is the old
\* one without that slot.
C10_LastRefSlot ==
    \A a \in AddInputs(nav) :
        (a[3] # U32Zero /\ PayloadAccepted(nav, a[1]) /\ ~Occupied(nav, a[1]))
        => LET it == decodePolyIdTile(nav, a[3])
               r == addTile(nav, a[1], a[2], a[3])
           IN  IF it >= nav.m_maxTiles \/ IsLive(nav, it)
               THEN r.status = DT_FAILURE \cup DT_OUT_OF_MEMORY /\ r.nav = nav
               ELSE /\ r.status = DT_SUCCESS
                    /\ LiveTiles(r.nav) = LiveTiles(nav) \cup {it}
                    /\ r.nav.m_tiles[it].header = a[1]
                    /\ FreeList(r.nav)
                           = SelectSeq(FreeList(nav), LAMBDA t : t # it)

C10_Witness ==
    /\ last.op = "addTile"
    /\ last.status = DT_SUCCESS
    /\ LiveTiles(nav) = {1}
    /\ FreeList(nav) = <<0, 2>>


\* the polygon references of the tile removed with hist.stale
StaleRefs == {U32Or(hist.stale, U32(i)) : i \in 0..(hist.polyCount - 1)}

StaleInvalid ==
    \A r \in StaleRefs :
        /\ ~isValidPolyRef(nav, r)
        /\ dtStatusFailed(getTileAndPolyByRef(nav, r).status)

\* C2, as amended: once removeTile(r) has succeeded, r and every r|i of the
\* removed tile fail isValidPolyRef and getTileAndPolyByRef in every later
\* state reached by addTile calls without lastRef and removeTile calls, as
\* long as the slot of r has been freed fewer than 2^saltBits - 1 times
\* (the removal of r included).
C2_StaleUntilWrap ==
    (hist.stale # U32Zero /\ ~hist.restored /\ hist.frees < MaxSalt(nav))
        => StaleInvalid

\* C2, as stated: the same for any number of frees.
C2_StaleForever ==
    (hist.stale # U32Zero /\ ~hist.restored) => StaleInvalid

C2_Witness ==
    /\ hist.stale # U32Zero
    /\ hist.frees >= 2
    /\ hist.frees < MaxSalt(nav)
    /\ IsLive(nav, decodePolyIdTile(nav, hist.stale))
    /\ last.op = "addTile"
    /\ last.status = DT_SUCCESS

\* the removed tile is added again with lastRef = hist.stale, and the
\* references of before the removal denote its polygons again
RestoreRoundTrip ==
    LET it == decodePolyIdTile(nav, hist.stale)
        r == addTile(nav, hist.data, 0, hist.stale)
    IN  /\ r.status = DT_SUCCESS
        /\ r.result = hist.stale
        /\ r.nav.m_tiles[it].header = hist.data
        /\ r.nav.m_tiles[it].salt = decodePolyIdSalt(nav, hist.stale)
        /\ \A i \in 0..(hist.polyCount - 1) :
               LET ref == U32Or(hist.stale, U32(i))
                   g == getTileAndPolyByRef(r.nav, ref)
               IN  /\ isValidPolyRef(r.nav, ref)
                   /\ dtStatusSucceed(g.status) /\ g.tile = it /\ g.poly = i

\* C9, as amended: a tile added without DT_TILE_FREE_DATA and removed with
\* removeTile(r) is restored by addTile of the returned data with lastRef =
\* r while the slot of r is free and no live tile holds its (x, y, layer):
\* the add succeeds in the same slot with the salt of r, returns r, and
\* every r|i denotes the same polygon again.
C9_RestoreRoundTrip ==
    (/\ hist.stale # U32Zero
     /\ ~hist.restored
     /\ ~IsLive(nav, decodePolyIdTile(nav, hist.stale))
     /\ ~Occupied(nav, hist.data))
        => RestoreRoundTrip

\* C9, as stated: the same whenever the slot of r is free.
C9_RestoreWheneverSlotFree ==
    (/\ hist.stale # U32Zero
     /\ ~hist.restored
     /\ ~IsLive(nav, decodePolyIdTile(nav, hist.stale)))
        => RestoreRoundTrip

C9_Witness ==
    /\ hist.restored
    /\ last.op = "addTile"
    /\ last.status = DT_SUCCESS
    /\ getTileRefOf(nav, decodePolyIdTile(nav, hist.stale)) = hist.stale
    /\ nav.m_tiles[decodePolyIdTile(nav, hist.stale)].header = hist.data
    /\ Cardinality(LiveTiles(nav)) >= 2

\* the links in the polygon chains of the live tiles
LinksOfTile(t) ==
    UNION {{t.links[j + 1] : j \in SeqToSet(PolyLinks(t, ip))} :
               ip \in 0..(Header(t.header).polyCount - 1)}

LiveLinks(n) == UNION {LinksOfTile(n.m_tiles[it]) : it \in LiveTiles(n)}

\* C8: after a successful removeTile(T) no link in a polygon chain of a
\* remaining live tile has a ref whose tile index is the slot of T.
C8_NoLinkToRemoved ==
    [][\A it \in Slots(nav) :
           (IsLive(nav, it) /\ ~IsLive(nav', it))
               => \A l \in LiveLinks(nav') : decodePolyIdTile(nav', l.ref) # it]_vars


\* the salt the claim gives a freed slot whose salt field has bits bits
SaltBump(old, bits) ==
    IF (old + 1) % Pow2(bits) = 0 THEN 1 ELSE (old + 1) % Pow2(bits)

FreedSalt(old, new, bits) ==
    /\ new = SaltBump(old, bits)
    /\ new \in 1..(Pow2(bits) - 1)
    /\ new # old

\* C4: whenever a slot is freed (a mesh tile by removeTile, a compressed
\* tile by the cache's removeTile, an obstacle that update takes from
\* REMOVING to EMPTY) its salt becomes (old + 1) mod 2^bits, and 1 when
\* that is 0: it is in 1 .. 2^bits - 1 and differs from the old salt.  bits
\* is the salt width of init for tiles and 16 for obstacles.
C4_SaltBump ==
    [][/\ \A it \in Slots(nav) :
              (\/ IsLive(nav, it) /\ ~IsLive(nav', it)
               \/ nav'.m_tiles[it].salt # nav.m_tiles[it].salt)
                  => FreedSalt(nav.m_tiles[it].salt, nav'.m_tiles[it].salt,
                               nav.m_saltBits)
       /\ \A it \in 0..(tc.m_params.maxTiles - 1) :
              (\/ /\ tc.m_tiles[it].header # NULL_DATA
                  /\ tc'.m_tiles[it].header = NULL_DATA
               \/ tc'.m_tiles[it].salt # tc.m_tiles[it].salt)
                  => FreedSalt(tc.m_tiles[it].salt, tc'.m_tiles[it].salt,
                               tc.m_saltBits)
       /\ \A i \in 0..(tc.m_params.maxObstacles - 1) :
              (\/ /\ tc.m_obstacles[i].state = "REMOVING"
                  /\ tc'.m_obstacles[i].state = "EMPTY"
               \/ tc'.m_obstacles[i].salt # tc.m_obstacles[i].salt)
                  => FreedSalt(tc.m_obstacles[i].salt, tc'.m_obstacles[i].salt,
                               16)]_vars

\* the salt of slot 0 has wrapped to 1 in each of the three pools, next to
\* a slot 1 that still has the largest salt
C4_Witness ==
    /\ nav.m_tiles[0].salt = 1 /\ nav.m_tiles[1].salt = MaxSalt(nav)
    /\ tc.m_tiles[0].salt = 1 /\ tc.m_tiles[1].salt = Pow2(tc.m_saltBits) - 1
    /\ tc.m_obstacles[0].salt = 1 /\ tc.m_obstacles[1].salt = 65535
    /\ tc.m_obstacles[0].state = "EMPTY"
    /\ tc.m_tiles[0].header = NULL_DATA

(***************************************************************************)
(* removeTile and its argument.                                            *)
(***************************************************************************)
\* ref designates a live mesh tile: a slot index in range, the salt of the
\* slot, and a payload in the slot
DesignatesLive(n, ref) ==
    /\ ref # U32Zero
    /\ decodePolyIdTile(n, ref) < n.m_maxTiles
    /\ n.m_tiles[decodePolyIdTile(n, ref)].salt = decodePolyIdSalt(n, ref)
    /\ IsLive(n, decodePolyIdTile(n, ref))

\* the same for a compressed tile of the cache
TcDesignatesLive(c, ref) ==
    /\ ref # U32Zero
    /\ decodeTileIdTile(c, ref) < c.m_params.maxTiles
    /\ c.m_tiles[decodeTileIdTile(c, ref)].salt = decodeTileIdSalt(c, ref)
    /\ c.m_tiles[decodeTileIdTile(c, ref)].header # NULL_DATA

\* the call returned DT_FAILURE | DT_INVALID_PARAM and the object is as before
RefusedAs(r, after, before) ==
    /\ ~r.crash
    /\ r.status = DT_FAILURE \cup DT_INVALID_PARAM
    /\ after = before

\* C11: for every ref that designates no live tile (0, an index past the
\* last slot, a salt other than the slot's, a slot without a tile),
\* dtNavMesh::removeTile and dtTileCache::removeTile return
\* DT_FAILURE | DT_INVALID_PARAM and leave the free list, the position
\* hash, the salts and the links as they are.
C11_RemoveValidates ==
    /\ \A ref \in RemoveRefs(nav) :
           ~DesignatesLive(nav, ref)
               => RefusedAs(removeTile(nav, ref), removeTile(nav, ref).nav, nav)
    /\ \A ref \in TcRemoveRefs(tc) :
           ~TcDesignatesLive(tc, ref)
               => RefusedAs(tcRemoveTile(tc, ref), tcRemoveTile(tc, ref).tc, tc)

(***************************************************************************)
(* Tile state snapshots.                                                   *)
(***************************************************************************)
\* the buffer holds a state that storeTileState wrote
Stored(data) == data.magic = DT_NAVMESH_STATE_MAGIC

\* C12: restoreTileState on a tile whose reference is the one in the stored
\* state (also after the tile was removed and added again with that
\* reference as lastRef) succeeds and gives every polygon the stored flags
\* and area, whatever setPolyFlags and setPolyArea did in between; on a tile
\* whose reference differs it returns DT_FAILURE | DT_INVALID_PARAM and
\* changes no polygon.
C12_StateRoundTrip ==
    [][(last'.op = "restoreTileState" /\ Stored(hist.state))
          => IF hist.state.ref = getTileRef(nav, last'.tile)
             THEN last'.size >= getTileStateSize(nav, last'.tile)
                      => /\ last'.status = DT_SUCCESS
                         /\ nav' = [nav EXCEPT !.m_tiles[last'.tile].polys =
                                                   hist.state.polyStates]
             ELSE /\ last'.status = DT_FAILURE \cup DT_INVALID_PARAM
                  /\ nav' = nav]_vars

\* a state stored with flags 2 and area 6 (set as 70) was restored into the
\* tile after it was removed and added again with its reference as lastRef
C12_Witness ==
    /\ last.op = "restoreTileState"
    /\ last.status = DT_SUCCESS
    /\ hist.restored
    /\ hist.state.ref = hist.stale
    /\ getTileRef(nav, last.tile) = hist.stale
    /\ nav.m_tiles[last.tile].polys[1].flags = 2
    /\ nav.m_tiles[last.tile].polys[2].area = 6


-----------------------------------------------------------------------------
\* dtNavMesh::init applied to parameter pairs drawn from a bounded set.

\* largest maxTiles tried
InitTiles == 9
\* maxPolys tried are the powers of two up to 2^InitBits and their successors
InitBits == 29

\* a dtNavMesh after its constructor, before init
dtNavMeshNew ==
    [m_maxTiles |-> 0, m_tileLutSize |-> 0, m_tileLutMask |-> 0,
     m_tileBits |-> 0, m_polyBits |-> 0, m_saltBits |-> 0,
     m_nextFree |-> NULL_TILE, m_posLookup |-> << >>, m_tiles |-> << >>]

InitParams ==
    {[maxTiles |-> t, maxPolys |-> p] :
        t \in 1..InitTiles,
        p \in {Pow2(e) : e \in 0..InitBits} \cup {Pow2(e) + 1 : e \in 0..(InitBits - 1)}}

InitMesh(params) ==
    LET Returned(r) ==
            /\ nav' = r.nav
            /\ last' = [op |-> "init", status |-> r.status, crash |-> FALSE,
                        params |-> params]
    IN  /\ nav = dtNavMeshNew
        /\ Returned(init(params))
        /\ UNCHANGED <<tc, hist>>

InitOfInit ==
    /\ nav = dtNavMeshNew
    /\ tc = NewCache
    /\ last = [op |-> "dtNavMesh", status |-> DT_SUCCESS, crash |-> FALSE]
    /\ hist = NoHist

NextInit == \E params \in InitParams : InitMesh(params)

SpecInit == InitOfInit /\ [][NextInit]_vars

\* least k with 2^k >= v
CeilLog2(v) == CHOOSE k \in 0..30 : Pow2(k) >= v /\ (k = 0 \/ Pow2(k - 1) < v)

InitSaltRoom(params) == 32 - CeilLog2(params.maxTiles) - CeilLog2(params.maxPolys)

\* C13: init computes tile_bits = ceil(log2(maxTiles)), poly_bits =
\* ceil(log2(maxPolys)) and salt_bits = 32 - tile_bits - poly_bits capped at
\* 31, and returns DT_FAILURE | DT_INVALID_PARAM exactly when
\* 32 - tile_bits - poly_bits < 10, also when tile_bits + poly_bits > 32.
C13_InitBits ==
    last.op = "init"
        => /\ nav.m_tileBits = CeilLog2(last.params.maxTiles)
           /\ nav.m_polyBits = CeilLog2(last.params.maxPolys)
           /\ nav.m_saltBits = dtMin(31, InitSaltRoom(last.params))
           /\ (last.status = DT_FAILURE \cup DT_INVALID_PARAM)
                  <=> (InitSaltRoom(last.params) < 10)
           /\ dtStatusFailed(last.status)
                  <=> (nav.m_tileBits + nav.m_polyBits > 22)

\* the same for the parameter pairs whose fields fit a 32-bit reference
C13_InitBitsIn32 ==
    (last.op = "init" /\ InitSaltRoom(last.params) >= 0)
        => /\ nav.m_tileBits = CeilLog2(last.params.maxTiles)
           /\ nav.m_polyBits = CeilLog2(last.params.maxPolys)
           /\ nav.m_saltBits = dtMin(31, InitSaltRoom(last.params))
           /\ (last.status = DT_FAILURE \cup DT_INVALID_PARAM)
                  <=> (InitSaltRoom(last.params) < 10)

\* init accepted a pair whose tile and polygon fields alone exceed 32 bits
C13_Wrapped ==
    /\ last.op = "init"
    /\ nav.m_tileBits + nav.m_polyBits > 32
    /\ last.status = DT_SUCCESS
    /\ nav.m_saltBits = 31


-----------------------------------------------------------------------------
(***************************************************************************)
(* Specification SpecObs: the obstacles of a tile cache that holds the     *)
(* layers (0,0) and (1,0).  The caller adds a cylinder on the border of    *)
(* the two layers, a box inside (0,0) and an oriented box that touches no  *)
(* layer, removes obstacles by any reference that carries the salt of its  *)
(* slot, and calls update.  It starts with an empty request queue, or with *)
(* the queue filled: the cylinder was added and then removeObstacle was    *)
(* called MAX_REQUESTS - 1 times with a reference that designates nothing. *)
(* The mesh holds MaxPolys polygons per tile, or a single one (the mesh    *)
(* built from layer (0,0) has two polygons, or one once an obstacle is     *)
(* rasterised).                                                            *)
(***************************************************************************)
TwoLayers == tcAddTile(tcAddTile(NewCache, 1, 0).tc, 2, 0).tc

\* the reference of slot 1 with a salt the slot does not have
UnknownObstacle == encodeObstacleId(2, 1)

RECURSIVE FilledQueue(_)
FilledQueue(c) ==
    IF Len(c.m_reqs) >= MAX_REQUESTS THEN c
    ELSE FilledQueue(removeObstacle(c, UnknownObstacle).tc)

InitObs ==
    /\ \E maxPolys \in {1, MaxPolys} :
           nav = init([maxTiles |-> MaxTiles, maxPolys |-> maxPolys]).nav
    /\ \E filled \in BOOLEAN :
           tc = IF filled
                THEN FilledQueue(addObstacle(TwoLayers, <<1000, 0, 500>>,
                                             100, 200).tc)
                ELSE TwoLayers
    /\ last = NoCall
    /\ hist = NoHist

\* room in the queue as the caller uses it, or none at all
MayCall(c) == Len(c.m_reqs) < MaxReqs \/ Len(c.m_reqs) >= MAX_REQUESTS

MayAdd(c) ==
    /\ MayCall(c)
    /\ c.m_nextFreeObstacle # NULL_TILE
           => c.m_obstacles[c.m_nextFreeObstacle].salt <= SaltWindow

\* removeObstacle: 0, a reference past the last slot and the reference of
\* every slot, in use or not, whose salt is one the caller's removals are
\* explored for
SlotRefs(c) ==
    {U32Zero, encodeObstacleId(1, c.m_params.maxObstacles)}
    \cup {getObstacleRef(c, i) :
              i \in {o \in 0..(c.m_params.maxObstacles - 1) :
                         c.m_obstacles[o].salt <= SaltWindow}}

NextObs ==
    \/ \E o \in Cylinders : MayAdd(tc) /\ AddObstacle(o)
    \/ \E o \in Boxes : MayAdd(tc) /\ AddBoxObstacle(o)
    \/ \E o \in OrientedBoxes : MayAdd(tc) /\ AddOrientedBoxObstacle(o)
    \/ \E ref \in SlotRefs(tc) : MayCall(tc) /\ RemoveObstacle(ref)
    \/ \E outcome \in BuildOutcomes : Update(outcome, TRUE)

SpecObs == InitObs /\ [][NextObs]_vars

\* the same caller when no build fails
NextObsBuilt ==
    \/ \E o \in Cylinders : MayAdd(tc) /\ AddObstacle(o)
    \/ \E o \in Boxes : MayAdd(tc) /\ AddBoxObstacle(o)
    \/ \E o \in OrientedBoxes : MayAdd(tc) /\ AddOrientedBoxObstacle(o)
    \/ \E ref \in SlotRefs(tc) : MayCall(tc) /\ RemoveObstacle(ref)
    \/ \E outcome \in {o \in BuildOutcomes : o.kind \in {"empty", "ok"}} :
           Update(outcome, TRUE)

SpecObsBuilt == InitObs /\ [][NextObsBuilt]_vars


-----------------------------------------------------------------------------
\* update has just returned
Updated == last.op = "update" /\ ~last.crash

ObstacleSlots(c) == 0..(c.m_params.maxObstacles - 1)

\* C15: the upToDate flag written by update is true if and only if, when
\* the call returns, the request queue and the rebuild list are both empty.
C15_UpToDateIff ==
    Updated => (last.upToDate <=> (tc.m_reqs = << >> /\ tc.m_update = << >>))

\* update has built the last layer of the rebuild list while a request was
\* waiting in the queue: upToDate is false
C15_Witness ==
    /\ Updated
    /\ last.builds # << >>
    /\ tc.m_update = << >>
    /\ tc.m_reqs # << >>
    /\ ~last.upToDate

\* C16: a call of update calls buildNavMeshTile exactly once, with the head
\* of the rebuild list, when the list is not empty once the requests are
\* processed, and not at all otherwise; it takes exactly that head entry off
\* the list, whether the build succeeded or failed.
C16_OneRebuild ==
    [][(last'.op = "update" /\ ~last'.crash)
          => IF processRequests(tc).m_update # << >>
             THEN /\ last'.builds = <<Head(processRequests(tc).m_update)>>
                  /\ tc'.m_update = Tail(processRequests(tc).m_update)
             ELSE /\ last'.builds = << >>
                  /\ tc'.m_update = << >>]_vars

\* a failed build of the first of two layers on the rebuild list left the
\* second one on it
C16_Witness ==
    /\ Updated
    /\ dtStatusFailed(last.status)
    /\ Len(last.builds) = 1
    /\ Len(tc.m_update) = 1
    /\ tc.m_update[1] # last.builds[1]

AddCalls == {"addObstacle", "addBoxObstacle", "addOrientedBoxObstacle"}

\* C17: with MAX_REQUESTS requests in the queue, addObstacle, the two
\* addBoxObstacle functions and removeObstacle of a non-zero reference return
\* DT_FAILURE | DT_BUFFER_TOO_SMALL and leave the queue, every obstacle slot
\* and the obstacle free list as they were.
C17_FullQueueRefuses ==
    [][(/\ Len(tc.m_reqs) >= MAX_REQUESTS
        /\ \/ last'.op \in AddCalls
           \/ last'.op = "removeObstacle" /\ last'.ref # U32Zero)
          => /\ last'.status = DT_FAILURE \cup DT_BUFFER_TOO_SMALL
             /\ tc' = tc]_vars

\* an add was refused on a full queue although an obstacle slot was free
C17_Witness ==
    /\ last.op \in AddCalls
    /\ last.status = DT_FAILURE \cup DT_BUFFER_TOO_SMALL
    /\ Len(tc.m_reqs) = MAX_REQUESTS
    /\ tc.m_nextFreeObstacle # NULL_TILE

\* the changes of state of the lifecycle of an obstacle slot
Lifecycle ==
    {<<"EMPTY", "PROCESSING">>, <<"PROCESSING", "PROCESSED">>,
     <<"PROCESSED", "REMOVING">>, <<"REMOVING", "EMPTY">>,
     <<"PROCESSING", "REMOVING">>}

Follows(a, b) == a = b \/ <<a, b>> \in Lifecycle

\* the state of slot i between the two phases of the call that leads to the
\* next state
MidState(i) ==
    IF last'.op = "update" THEN processRequests(tc).m_obstacles[i].state
    ELSE tc.m_obstacles[i].state

\* C18: every change of the state of an obstacle slot is a step of the
\* lifecycle EMPTY -> PROCESSING -> PROCESSED -> REMOVING -> EMPTY or the
\* shortcut PROCESSING -> REMOVING (update changes a state when it processes
\* the requests and again after the build).
C18_Lifecycle ==
    [][\A i \in ObstacleSlots(tc) :
           /\ Follows(tc.m_obstacles[i].state, MidState(i))
           /\ Follows(MidState(i), tc'.m_obstacles[i].state)]_vars

\* update has nothing left to do: no request and no layer to rebuild
Settled == Updated /\ tc.m_reqs = << >> /\ tc.m_update = << >>

\* C19: removal completes.  Once the calls of update that follow an accepted
\* removeObstacle have nothing left to do, the slot of every obstacle whose
\* removal was processed is EMPTY again and on the free list: no slot taken
\* from the free list is left in state REMOVING.
C19_RemovalCompletes ==
    Settled
        => \A i \in ObstacleSlots(tc) :
               ~contains(tcFreeObstacles(tc), i)
                   => tc.m_obstacles[i].state # "REMOVING"

\* a call of update with nothing left to do changes nothing
C19_SettledStays ==
    [][(last'.op = "update" /\ tc.m_reqs = << >> /\ tc.m_update = << >>)
          => tc' = tc]_vars

\* C20: whenever update reports upToDate = true, no obstacle slot is in
\* state PROCESSING or REMOVING.
C20_UpToDateSettled ==
    (Updated /\ last.upToDate)
        => \A i \in ObstacleSlots(tc) :
               tc.m_obstacles[i].state \notin {"PROCESSING", "REMOVING"}

\* the same for the obstacles that touch a layer
C20_UpToDateSettledTouching ==
    (Updated /\ last.upToDate)
        => \A i \in ObstacleSlots(tc) :
               (tc.m_obstacles[i].touched # << >>
                    /\ ~contains(tcFreeObstacles(tc), i))
                   => tc.m_obstacles[i].state \notin {"PROCESSING", "REMOVING"}


\* the obstacles in use (added, their removal not yet processed) whose
\* bounds overlap the tight bounds of the layer in tile slot it
Overlapping(c, it) ==
    {Shape(c.m_obstacles[i]) :
         i \in {o \in ObstacleSlots(c) :
                   /\ c.m_obstacles[o].state \in {"PROCESSING", "PROCESSED"}
                   /\ dtOverlapBounds(
                          getObstacleBounds(c.m_obstacles[o]).bmin,
                          getObstacleBounds(c.m_obstacles[o]).bmax,
                          calcTightTileBounds(c, CacheHeader(c.m_tiles[it].header)).bmin,
                          calcTightTileBounds(c, CacheHeader(c.m_tiles[it].header)).bmax)}}

\* the layer of b.ref is in the cache
StillCached(c, b) ==
    /\ c.m_tiles[decodeTileIdTile(c, b.ref)].header # NULL_DATA
    /\ tcGetTileRef(c, decodeTileIdTile(c, b.ref)) = b.ref

\* C14: whenever update has just reported upToDate = true, the last build of
\* every layer that has been built rasterised exactly the obstacles that are
\* in use and whose bounds overlap the layer.
C14_RebuiltWithLive ==
    (Updated /\ last.upToDate)
        => \A b \in hist.built :
               StillCached(tc, b)
                   => b.obs = Overlapping(tc, decodeTileIdTile(tc, b.ref))


\* update reported upToDate = true after the build of a layer failed
C14_AfterFailedBuild ==
    /\ Updated
    /\ last.upToDate
    /\ last.builds # << >>
    /\ dtStatusFailed(last.status)


-----------------------------------------------------------------------------
\* the layer whose build the call that leads to the next state has asked for
BuiltLayer == CacheHeader(tc.m_tiles[decodeTileIdTile(tc, last'.builds[1])].header)

\* the slot of the mesh tile at the position of header
MeshTileAt(n, header) == getTileAt(n, header.tx, header.ty, header.tlayer)

\* update has returned the failure of a build
BuildFailed == last'.op = "update" /\ last'.builds # << >> /\ dtStatusFailed(last'.status)

\* C21: whenever buildNavMeshTile, and so update, returns a failure, the
\* navmesh holds at the position of the layer the tile it held before the
\* call, with the same reference and the same links.
C21_FailedBuildKeepsTile ==
    [][(BuildFailed /\ MeshTileAt(nav, BuiltLayer) # NULL_TILE)
          => /\ MeshTileAt(nav', BuiltLayer) = MeshTileAt(nav, BuiltLayer)
             /\ nav'.m_tiles[MeshTileAt(nav, BuiltLayer)]
                    = nav.m_tiles[MeshTileAt(nav, BuiltLayer)]]_vars

\* the same for the failures of the steps before the mesh tile is removed
C21_BuilderFailureKeepsTile ==
    [][(/\ BuildFailed
        /\ DT_INVALID_PARAM \cap last'.status = { }
        /\ MeshTileAt(nav, BuiltLayer) # NULL_TILE)
          => nav' = nav]_vars

\* a failed build has taken the tile of the layer out of the mesh
C21_TileLost ==
    /\ Updated
    /\ last.builds # << >>
    /\ last.status = DT_FAILURE \cup DT_INVALID_PARAM
    /\ hist.built # { }
    /\ LiveTiles(nav) = { }


-----------------------------------------------------------------------------
\* the reference of the request has the index of a slot and its salt
Matches(c, req) ==
    /\ decodeObstacleIdObstacle(req.ref) < c.m_params.maxObstacles
    /\ c.m_obstacles[decodeObstacleIdObstacle(req.ref)].salt
           = decodeObstacleIdSalt(req.ref)

\* the reference of the request designates an obstacle in use
Resolves(c, req) ==
    /\ Matches(c, req)
    /\ c.m_obstacles[decodeObstacleIdObstacle(req.ref)].state # "EMPTY"

WithRequests(c, Keep(_, _)) ==
    [c EXCEPT !.m_reqs = SelectSeq(@, LAMBDA req : Keep(c, req))]

\* C22: update skips a queued request whose reference does not resolve to
\* an obstacle in use (index past the slots, another salt, or an EMPTY slot
\* on the free list): the cache after the requests are processed (obstacle
\* states, touched and pending sets, rebuild list, free list) is the one the
\* queue without these requests gives (the requests are processed when the
\* rebuild list is empty).
C22_UnresolvedSkipped ==
    [][(last'.op = "update" /\ tc.m_update = << >>)
          => processRequests(tc) = processRequests(WithRequests(tc, Resolves))]_vars

\* the same for the requests with an index past the slots or another salt
C22_UnmatchedSkipped ==
    [][(last'.op = "update" /\ tc.m_update = << >>)
          => processRequests(tc) = processRequests(WithRequests(tc, Matches))]_vars


-----------------------------------------------------------------------------
(***************************************************************************)
(* Specification SpecStitch: a mesh of MaxTiles slots and StitchPolys      *)
(* polygons per tile.  The caller adds, at (0,0), the tile of one polygon  *)
(* with a portal on side 0 and a link pool of one link (PayloadA2) or of   *)
(* six (PayloadW), at (1,0) the tile of one polygon (PayloadB) or of five  *)
(* (PayloadStrips) with portals on side 4, at (0,1) the tile with the      *)
(* off-mesh connection (PayloadS4), and removes live tiles.                *)
(***************************************************************************)
InitStitch ==
    /\ nav = init([maxTiles |-> MaxTiles, maxPolys |-> StitchPolys]).nav
    /\ tc = NewCache
    /\ last = NoCall
    /\ hist = NoHist

NextStitch ==
    \/ \E d \in {4, 2, IdW, IdStrips, IdS4} : AddTile(d, 0, U32Zero)
    \/ \E it \in LiveTiles(nav) :
           /\ nav.m_tiles[it].salt <= SaltWindow
           /\ RemoveTile(getTileRefOf(nav, it), FALSE)

SpecStitch == InitStitch /\ [][NextStitch]_vars

-----------------------------------------------------------------------------
(***************************************************************************)
(* The links of a portal edge.                                             *)
(***************************************************************************)
\* the portal edges <<polygon, edge>> of tile T, and the direction of one
PortalEdges(n, T) ==
    {pe \in (0..(n.m_tiles[T].hdr.polyCount - 1)) \X (0..5) :
        /\ pe[2] < n.m_tiles[T].hdr.polys[pe[1] + 1].vertCount
        /\ n.m_tiles[T].hdr.polys[pe[1] + 1].neis[pe[2] + 1] >= DT_EXT_LINK}

PortalDir(n, T, pe) == n.m_tiles[T].hdr.polys[pe[1] + 1].neis[pe[2] + 1] % 256

\* the live tiles next to T in direction dir
Adjacent(n, T, dir) ==
    SeqToSet(getNeighbourTilesAt(n, n.m_tiles[T].hdr.x, n.m_tiles[T].hdr.y,
                                 dir, MAX_NEIS))

\* the links of edge pe of T that point into tile N
EdgeLinks(n, T, pe, N) ==
    {l \in SeqToSet(PolyLinks(n.m_tiles[T], pe[1])) :
        /\ n.m_tiles[T].links[l + 1].edge = pe[2]
        /\ decodePolyIdTile(n, n.m_tiles[T].links[l + 1].ref) = N}

\* the slab-matching predicate: edge j of polygon i of N is a portal of the
\* opposite direction, lies within 0.01 of the slab of edge pe of T and
\* overlaps it in the plane of the border
SlabMatch(n, T, pe, N, i, j) ==
    LET ht == n.m_tiles[T].hdr
        hn == n.m_tiles[N].hdr
        dir == PortalDir(n, T, pe)
        opp == (dir + 4) % 8
        p == ht.polys[pe[1] + 1]
        q == hn.polys[i + 1]
        va == ht.verts[p.verts[pe[2] + 1] + 1]
        vb == ht.verts[p.verts[((pe[2] + 1) % p.vertCount) + 1] + 1]
        vc == hn.verts[q.verts[j + 1] + 1]
        vd == hn.verts[q.verts[((j + 1) % q.vertCount) + 1] + 1]
        a == calcSlabEndPoints(va, vb, opp)
        b == calcSlabEndPoints(vc, vd, opp)
    IN  /\ q.neis[j + 1] = DT_EXT_LINK + opp
        /\ dtAbs(getSlabCoord(va, opp) - getSlabCoord(vc, opp)) <= 1
        /\ overlapSlabs(a[1], a[2], b[1], b[2], 1, hn.walkableClimb)

\* the polygons of N that pass the predicate for edge pe of T
MatchingPolys(n, T, pe, N) ==
    {i \in 0..(n.m_tiles[N].hdr.polyCount - 1) :
        \E j \in 0..(n.m_tiles[N].hdr.polys[i + 1].vertCount - 1) :
            SlabMatch(n, T, pe, N, i, j)}

\* the portal edges with a neighbour: <<T, pe, N>>
StitchedEdges(n) ==
    UNION {UNION {{<<T, pe, N>> : N \in Adjacent(n, T, PortalDir(n, T, pe))} :
                     pe \in PortalEdges(n, T)} :
              T \in LiveTiles(n)}

\* C23 as stated: a portal edge carries into an adjacent tile as many links
\* as that tile has polygons passing the slab-matching predicate.
C23_LinksEqualMatches ==
    \A e \in StitchedEdges(nav) :
        Cardinality(EdgeLinks(nav, e[1], e[2], e[3]))
            = Cardinality(MatchingPolys(nav, e[1], e[2], e[3]))

\* the tiles an addTile step has stitched: the added one
AddedTiles == LiveTiles(nav') \ LiveTiles(nav)

\* C23: a portal edge never carries more links into an adjacent tile than
\* min(4, number of polygons of that tile passing the predicate), and carries
\* exactly that many after the addTile that stitched the two tiles whenever
\* the tile owning the edge still has a free link after that call.
C23_LinksCappedMatches ==
    [][\A e \in StitchedEdges(nav') :
          /\ Cardinality(EdgeLinks(nav', e[1], e[2], e[3]))
                 <= dtMin(4, Cardinality(MatchingPolys(nav', e[1], e[2], e[3])))
          /\ (/\ last'.op = "addTile"
              /\ (e[1] \in AddedTiles \/ e[3] \in AddedTiles)
              /\ FreeLinks(nav'.m_tiles[e[1]]) # << >>)
             => Cardinality(EdgeLinks(nav', e[1], e[2], e[3]))
                    = dtMin(4, Cardinality(MatchingPolys(nav', e[1], e[2], e[3])))
      ]_vars

\* a portal edge with five matching polygons next to it, four links and free
\* links left
C23_Witness ==
    \E e \in StitchedEdges(nav) :
        /\ last.op = "addTile"
        /\ Cardinality(MatchingPolys(nav, e[1], e[2], e[3])) = 5
        /\ Cardinality(EdgeLinks(nav, e[1], e[2], e[3])) = 4
        /\ FreeLinks(nav.m_tiles[e[1]]) # << >>

-----------------------------------------------------------------------------
(***************************************************************************)
(* The chains of the polygons.                                             *)
(***************************************************************************)
\* the chain of polygon poly of slot t as the links themselves
ChainOf(t, poly) ==
    [k \in 1..Len(PolyLinks(t, poly)) |-> t.links[PolyLinks(t, poly)[k] + 1]]

\* the walk from firstLink reaches DT_NULL_LINK: it visits no link twice
ChainEnds(t, poly) ==
    /\ Len(PolyLinks(t, poly)) <= Len(t.links)
    /\ Cardinality(SeqToSet(PolyLinks(t, poly))) = Len(PolyLinks(t, poly))

NoTwoAlike(t, poly) ==
    \A a, b \in 1..Len(ChainOf(t, poly)) :
        (/\ ChainOf(t, poly)[a].ref = ChainOf(t, poly)[b].ref
         /\ ChainOf(t, poly)[a].edge = ChainOf(t, poly)[b].edge
         /\ ChainOf(t, poly)[a].side = ChainOf(t, poly)[b].side) => a = b

PolysOf(n, it) == 0..(n.m_tiles[it].hdr.polyCount - 1)

\* C25: every polygon chain of every live tile ends at DT_NULL_LINK and holds
\* no two links with the same (ref, edge, side).
C25_ChainsEndNoDuplicates ==
    \A it \in LiveTiles(nav) : \A p \in PolysOf(nav, it) :
        ChainEnds(nav.m_tiles[it], p) /\ NoTwoAlike(nav.m_tiles[it], p)

\* C25, the half on termination: every polygon chain of every live tile ends
\* at DT_NULL_LINK.
C25_ChainsEnd ==
    \A it \in LiveTiles(nav) : \A p \in PolysOf(nav, it) :
        ChainEnds(nav.m_tiles[it], p)

\* the tile of scenario S4 is the only live tile
SoloS4(n, it) == LiveTiles(n) = {it} /\ n.m_tiles[it].header = IdS4

\* the links of the ground polygon (0) of slot it whose ref is the off-mesh
\* polygon (1)
BackLinks(n, it) ==
    {k \in 1..Len(ChainOf(n.m_tiles[it], 0)) :
        ChainOf(n.m_tiles[it], 0)[k].ref = U32Or(getPolyRefBase(n, it), U32(1))}

\* C24: in scenario S4 the chain of the off-mesh polygon has two links and the
\* chain of the ground polygon exactly one link to the off-mesh polygon.
C24_OffMeshLinks ==
    \A it \in LiveTiles(nav) :
        SoloS4(nav, it) =>
            /\ Len(PolyLinks(nav.m_tiles[it], 1)) = 2
            /\ Cardinality(BackLinks(nav, it)) = 1

\* C24, the half on the off-mesh polygon: its chain has two links, both to
\* the ground polygon.
C24_OffMeshChain ==
    \A it \in LiveTiles(nav) :
        SoloS4(nav, it) =>
            /\ Len(PolyLinks(nav.m_tiles[it], 1)) = 2
            /\ \A k \in 1..2 : ChainOf(nav.m_tiles[it], 1)[k].ref
                                   = U32Or(getPolyRefBase(nav, it), U32(0))

-----------------------------------------------------------------------------
(***************************************************************************)
(* The link pool of a tile.                                                *)
(***************************************************************************)
\* where link l of slot t is held: <<-1, k>> is place k of the free chain,
\* <<p, k>> place k of the chain of polygon p
Holders(t, l) ==
    {<<-1, k>> : k \in {j \in 1..Len(FreeLinks(t)) : FreeLinks(t)[j] = l}}
    \cup UNION {{<<p, k>> : k \in {j \in 1..Len(PolyLinks(t, p)) :
                                      PolyLinks(t, p)[j] = l}} :
                   p \in 0..(Len(t.firstLink) - 1)}

Conserved(t) == \A l \in 0..(Len(t.links) - 1) : Cardinality(Holders(t, l)) = 1

\* C26: every link record of a live tile is held once, by the free chain or
\* by one polygon chain; on an empty pool allocLink returns DT_NULL_LINK and
\* changes nothing, and the link asked for is left out.
C26_LinkPoolConserved ==
    \A it \in LiveTiles(nav) :
        /\ Conserved(nav.m_tiles[it])
        /\ nav.m_tiles[it].linksFreeList = DT_NULL_LINK =>
               /\ allocLink(nav.m_tiles[it])
                      = [tile |-> nav.m_tiles[it], link |-> DT_NULL_LINK]
               /\ addLink(nav.m_tiles[it], 0, U32Zero, 0, 0, <<0, 0>>)
                      = nav.m_tiles[it]

\* C26: the links unconnectLinks takes out of the chains of a tile that stays
\* are on its free chain afterwards.
C26_UnlinkedAreFree ==
    [][last'.op = "removeTile" =>
          \A it \in LiveTiles(nav) \cap LiveTiles(nav') :
              \A l \in 0..(Len(nav.m_tiles[it].links) - 1) :
                  (/\ Holders(nav.m_tiles[it], l) \cap ({-1} \X (1..Len(nav.m_tiles[it].links))) = { }
                   /\ \A p \in PolysOf(nav', it) :
                          l \notin SeqToSet(PolyLinks(nav'.m_tiles[it], p)))
                  => l \in SeqToSet(FreeLinks(nav'.m_tiles[it]))
      ]_vars

\* the pool of a tile has run empty and links of a portal edge with five
\* matching polygons next to it were left out
C26_Witness ==
    \E e \in StitchedEdges(nav) :
        /\ FreeLinks(nav.m_tiles[e[1]]) = << >>
        /\ Cardinality(MatchingPolys(nav, e[1], e[2], e[3])) = 5
        /\ Cardinality(EdgeLinks(nav, e[1], e[2], e[3])) = 1

-----------------------------------------------------------------------------
(***************************************************************************)
(* Scenario S2: the tile A at (0,0) (PayloadA2, or PayloadW with the       *)
(* larger pool) and the tile B at (1,0) (PayloadB), one polygon each, with *)
(* portals over the whole shared border.                                   *)
(***************************************************************************)
\* the external links of polygon poly of slot t (an internal or off-mesh
\* link has side 0xff)
ExtLinks(t, poly) == SelectSeq(ChainOf(t, poly), LAMBDA l : l.side # 255)

IsLinkTo(l, ref, edge, side, bmin, bmax) ==
    /\ l.ref = ref
    /\ l.edge = edge
    /\ l.side = side
    /\ l.bmin = bmin
    /\ l.bmax = bmax

\* C29: with A and B both live, A's polygon has one external link, to B's
\* polygon with side 0 and limits 0..255, and B's polygon one, to A's polygon
\* with side 4 and limits 0..255, whichever was added first.
C29_S2Links ==
    \A a, b \in LiveTiles(nav) :
        (nav.m_tiles[a].header \in {4, IdW} /\ nav.m_tiles[b].header = 2) =>
            /\ Len(ExtLinks(nav.m_tiles[a], 0)) = 1
            /\ IsLinkTo(ExtLinks(nav.m_tiles[a], 0)[1],
                        getPolyRefBase(nav, b), 1, 0, 0, 255)
            /\ Len(ExtLinks(nav.m_tiles[b], 0)) = 1
            /\ IsLinkTo(ExtLinks(nav.m_tiles[b], 0)[1],
                        getPolyRefBase(nav, a), 3, 4, 0, 255)

\* B was added first (slot 0), then A (slot 1), on a fresh mesh
C29_Witness ==
    /\ last.op = "addTile"
    /\ LiveTiles(nav) = {0, 1}
    /\ nav.m_tiles[0].header = 2 /\ nav.m_tiles[0].salt = 1
    /\ nav.m_tiles[1].header = 4 /\ nav.m_tiles[1].salt = 1
    /\ Len(ExtLinks(nav.m_tiles[0], 0)) = 1
    /\ Len(ExtLinks(nav.m_tiles[1], 0)) = 1

-----------------------------------------------------------------------------
(***************************************************************************)
(* The detail codes of a failure.                                          *)
(***************************************************************************)
DetailCodes ==
    DT_WRONG_MAGIC \cup DT_WRONG_VERSION \cup DT_OUT_OF_MEMORY
    \cup DT_INVALID_PARAM \cup DT_ALREADY_OCCUPIED \cup DT_BUFFER_TOO_SMALL

\* C27: a failure status returned by an operation carries a detail code.
C27_FailureHasDetail ==
    dtStatusFailed(last.status) => last.status \cap DetailCodes # { }

\* C27 for the failures of dtTileCache::addTile other than the occupied
\* position, and of removeTile, addObstacle and removeObstacle.
C27_OtherFailuresHaveDetail ==
    (/\ dtStatusFailed(last.status)
     /\ last.op # "update"
     /\ ~(last.op = "tcAddTile" /\ last.status = DT_FAILURE))
    => last.status \cap DetailCodes # { }

-----------------------------------------------------------------------------
(***************************************************************************)
(* The lookups by reference.                                               *)
(***************************************************************************)
\* ref designates an obstacle slot in use
DesignatesObstacle(c, ref) ==
    /\ ref # U32Zero
    /\ decodeObstacleIdObstacle(ref) < c.m_params.maxObstacles
    /\ c.m_obstacles[decodeObstacleIdObstacle(ref)].salt = decodeObstacleIdSalt(ref)
    /\ c.m_obstacles[decodeObstacleIdObstacle(ref)].state # "EMPTY"

\* C28: the three lookups return a slot only for a reference to a live tile
\* or to an obstacle in use, and null for every other reference.
C28_LookupsFindLiveOnly ==
    /\ \A ref \in RemoveRefs(nav) :
           getTileByRef(nav, ref) # NULL_TILE <=> DesignatesLive(nav, ref)
    /\ \A ref \in TcRemoveRefs(tc) :
           tcGetTileByRef(tc, ref) # NULL_TILE <=> TcDesignatesLive(tc, ref)
    /\ \A ref \in SlotRefs(tc) :
           getObstacleByRef(tc, ref) # NULL_TILE <=> DesignatesObstacle(tc, ref)

\* C28 for the references to slots in use, to slots past the last one, with
\* another salt than the slot's, and 0: the slot is returned for the first
\* and null for the others.
C28_LookupsBySalt ==
    /\ \A ref \in RemoveRefs(nav) :
           /\ DesignatesLive(nav, ref)
                  => getTileByRef(nav, ref) = decodePolyIdTile(nav, ref)
           /\ (\/ ref = U32Zero
               \/ decodePolyIdTile(nav, ref) >= nav.m_maxTiles
               \/ nav.m_tiles[decodePolyIdTile(nav, ref)].salt
                      # decodePolyIdSalt(nav, ref))
                  => getTileByRef(nav, ref) = NULL_TILE
    /\ \A ref \in TcRemoveRefs(tc) :
           TcDesignatesLive(tc, ref)
               => tcGetTileByRef(tc, ref) = decodeTileIdTile(tc, ref)
    /\ \A ref \in SlotRefs(tc) :
           /\ DesignatesObstacle(tc, ref)
                  => getObstacleByRef(tc, ref) = decodeObstacleIdObstacle(ref)
           /\ (\/ ref = U32Zero
               \/ decodeObstacleIdObstacle(ref) >= tc.m_params.maxObstacles)
                  => getObstacleByRef(tc, ref) = NULL_TILE

-----------------------------------------------------------------------------
(***************************************************************************)
(* Specification SpecDrain: a cache of RowTiles layers in a row along x    *)
(* (ty = 2) and RowBoxes obstacle slots.  The caller lays boxes over the   *)
(* row from west to east, each over eight layers of its own, while the     *)
(* rebuild list is empty, and calls update; the layers of the row yield no *)
(* polygon, so every build leaves the position of the mesh empty.          *)
(***************************************************************************)
RowCache ==
    FoldSeq(LAMBDA c, d : tcAddTile(c, d, 0).tc,
            tcInit(CacheParams(RowTiles, RowBoxes), TRUE, TRUE).tc,
            [k \in 1..RowTiles |-> Len(CachePayloads) - RowTiles + k])

\* box k lies over the layers 8k .. 8k + 7 of the row
RowBox(k) ==
    [bmin |-> <<8000 * k + 100, 0, 2200>>, bmax |-> <<8000 * k + 7900, 100, 2400>>]

\* the obstacle slots in use
TakenSlots(c) ==
    {i \in 0..(c.m_params.maxObstacles - 1) : c.m_obstacles[i].state # "EMPTY"}

EmptyBuild == [kind |-> "empty", status |-> DT_SUCCESS, past |-> FALSE]

InitDrain ==
    /\ nav = init([maxTiles |-> MaxTiles, maxPolys |-> MaxPolys]).nav
    /\ tc = RowCache
    /\ last = NoCall
    /\ hist = NoHist

NextDrain ==
    \/ /\ tc.m_update = << >>
       /\ Cardinality(TakenSlots(tc)) < RowBoxes
       /\ AddBoxObstacle(RowBox(Cardinality(TakenSlots(tc))))
    \/ Update(EmptyBuild, FALSE)

SpecDrain == InitDrain /\ [][NextDrain]_vars

\* the ADD requests of the queue that update processes
ResolvingAdds(c) ==
    {k \in 1..Len(c.m_reqs) : c.m_reqs[k].action = "ADD" /\ Matches(c, c.m_reqs[k])}

\* what queryTiles returns for the obstacle of request req
QueriedTiles(c, req) ==
    queryTiles(c,
               getObstacleBounds(c.m_obstacles[decodeObstacleIdObstacle(req.ref)]).bmin,
               getObstacleBounds(c.m_obstacles[decodeObstacleIdObstacle(req.ref)]).bmax,
               DT_MAX_TOUCHED_TILES)

\* after the drain (cache c1) the tiles queried for req are the touched tiles
\* of its obstacle
TouchedStored(c, c1, req) ==
    c1.m_obstacles[decodeObstacleIdObstacle(req.ref)].touched = QueriedTiles(c, req)

\* ... and each is in its pending list and in the rebuild list
TouchedQueued(c, c1, req) ==
    \A ref \in SeqToSet(QueriedTiles(c, req)) :
        /\ contains(c1.m_obstacles[decodeObstacleIdObstacle(req.ref)].pending, ref)
        /\ contains(c1.m_update, ref)

\* C30: when update drains the requests, the tiles queryTiles returns for a
\* resolving ADD are stored in touched[], copied into pending[] and in the
\* rebuild list after the drain.
C30_TouchedQueued ==
    [][(last'.op = "update" /\ tc.m_update = << >>) =>
          \A k \in ResolvingAdds(tc) :
              /\ TouchedStored(tc, processRequests(tc), tc.m_reqs[k])
              /\ TouchedQueued(tc, processRequests(tc), tc.m_reqs[k])
      ]_vars

\* C30 while the rebuild list has room: the touched tiles are stored, and
\* they are queued when the rebuild list after the drain is not full.
C30_TouchedQueuedWithRoom ==
    [][(last'.op = "update" /\ tc.m_update = << >>) =>
          \A k \in ResolvingAdds(tc) :
              /\ TouchedStored(tc, processRequests(tc), tc.m_reqs[k])
              /\ Len(processRequests(tc).m_update) < MAX_UPDATE
                     => TouchedQueued(tc, processRequests(tc), tc.m_reqs[k])
      ]_vars

-----------------------------------------------------------------------------
(***************************************************************************)
(* The queues of the tile cache.                                           *)
(***************************************************************************)
NoRepeat(s) == \A a, b \in 1..Len(s) : s[a] = s[b] => a = b

\* C31: the rebuild list holds no reference twice and at most MAX_UPDATE
\* entries, the request queue at most MAX_REQUESTS, and every obstacle has
\* npending <= ntouched <= DT_MAX_TOUCHED_TILES with its pending tiles among
\* its touched tiles.
C31_QueuesBounded ==
    /\ NoRepeat(tc.m_update)
    /\ Len(tc.m_update) <= MAX_UPDATE
    /\ Len(tc.m_reqs) <= MAX_REQUESTS
    /\ \A i \in 0..(tc.m_params.maxObstacles - 1) :
           /\ Len(tc.m_obstacles[i].pending) <= Len(tc.m_obstacles[i].touched)
           /\ Len(tc.m_obstacles[i].touched) <= DT_MAX_TOUCHED_TILES
           /\ SeqToSet(tc.m_obstacles[i].pending)
                  \subseteq SeqToSet(tc.m_obstacles[i].touched)

\* two obstacles drained together touch the layer this update has built, and
\* the layer is not on the rebuild list again
C31_Witness ==
    /\ Updated
    /\ Len(last.builds) = 1
    /\ \E i, j \in 0..(tc.m_params.maxObstacles - 1) :
           /\ i # j
           /\ tc.m_obstacles[i].state # "EMPTY"
           /\ tc.m_obstacles[j].state # "EMPTY"
           /\ contains(tc.m_obstacles[i].touched, last.builds[1])
           /\ contains(tc.m_obstacles[j].touched, last.builds[1])
           /\ Len(tc.m_obstacles[i].touched) = 2
           /\ Len(tc.m_update) = 1
           /\ ~contains(tc.m_update, last.builds[1])

-----------------------------------------------------------------------------
RECURSIVE InOrder(_, _)
\* the requests reqs processed one after the other, first to last
\* (a = a is TRUE and only fixes the order of evaluation)
InOrder(c, reqs) ==
    LET Then(a) == IF a = a THEN InOrder(a, Tail(reqs)) ELSE c
    IN  IF reqs = << >> THEN c
        ELSE Then(processRequest(c, Head(reqs)))

\* C32: an update that starts with an empty rebuild list processes all queued
\* requests in the order of the queue and leaves the queue empty; an update
\* that starts with a non-empty rebuild list processes none, and the queue
\* and the touched tiles of every obstacle are as before.
C32_DrainWhenListEmpty ==
    [][(last'.op = "update" /\ ~last'.crash) =>
          IF tc.m_update = << >>
          THEN /\ processRequests(tc)
                      = [InOrder(tc, tc.m_reqs) EXCEPT !.m_reqs = << >>]
               /\ tc'.m_reqs = << >>
          ELSE /\ processRequests(tc) = tc
               /\ tc'.m_reqs = tc.m_reqs
               /\ \A i \in 0..(tc.m_params.maxObstacles - 1) :
                      tc'.m_obstacles[i].touched = tc.m_obstacles[i].touched
      ]_vars

\* an update has built a layer and left a request in the queue
C32_Witness ==
    /\ Updated
    /\ Len(last.builds) = 1
    /\ tc.m_reqs # << >>
    /\ Len(tc.m_reqs) < MAX_REQUESTS

(***************************************************************************)
(* Specification SpecBuild: buildNavMeshTile called by the application     *)
(* with references of its own making, over a cache whose layers are added  *)
(* and removed.                                                            *)
(***************************************************************************)
BuildNavMeshTile(ref, outcome) ==
    /\ ~last.crash
    /\ LET Returned(r) ==
               /\ nav' = r.nav
               /\ last' = [op |-> "buildNavMeshTile", status |-> r.status,
                           crash |-> r.crash, ref |-> ref]
       IN  Returned(buildNavMeshTile(tc, nav, ref, outcome))
    /\ UNCHANGED <<tc, hist>>

\* 0, and the salts of the window with every slot index the tile field holds
BuildRefs(c) ==
    {U32Zero}
    \cup {encodeTileId(c, salt, it) : salt \in 1..(SaltWindow + 1),
                                      it \in 0..(Pow2(c.m_tileBits) - 1)}

\* the decompressor, the builder and the read past the last slot
DirectOutcomes ==
    {[o EXCEPT !.past = p] : o \in BuildOutcomes, p \in BOOLEAN}

\* the salts of the navmesh slots are explored up to the window
NavInWindow(n) ==
    \A it \in 0..(n.m_maxTiles - 1) : n.m_tiles[it].salt <= SaltWindow + 1

InitBuild ==
    /\ nav = init([maxTiles |-> MaxTiles, maxPolys |-> MaxPolys]).nav
    /\ tc = NewCache
    /\ last = NoCall
    /\ hist = NoHist

NextBuild ==
    \/ \E d \in {1, 2} : TcAddTile(d, 0)
    \/ \E ref \in TcRemoveRefs(tc) : TcInWindow(tc, ref) /\ TcRemoveTile(ref)
    \/ \E ref \in BuildRefs(tc), outcome \in DirectOutcomes :
           NavInWindow(nav) /\ BuildNavMeshTile(ref, outcome)

SpecBuild == InitBuild /\ [][NextBuild]_vars

\* the slot index of the reference is past the last slot, or the salt of
\* the slot is not the salt of the reference
OutOfRangeOrStale(c, ref) ==
    \/ decodeTileIdTile(c, ref) >= c.m_params.maxTiles
    \/ c.m_tiles[decodeTileIdTile(c, ref)].salt # decodeTileIdSalt(c, ref)

\* C33: buildNavMeshTile of a reference that designates no live compressed
\* tile (slot index not in 0..maxTiles-1, salt not the slot's, or slot
\* without a tile) fails with DT_INVALID_PARAM, reads no payload and leaves
\* the navmesh as it was.
C33_BuildValidatesRef ==
    [][(last'.op = "buildNavMeshTile" /\ ~TcDesignatesLive(tc, last'.ref)) =>
          /\ ~last'.crash
          /\ last'.status = DT_FAILURE \cup DT_INVALID_PARAM
          /\ nav' = nav
      ]_vars

\* what the tests of the code do refuse: a slot index above maxTiles, and a
\* salt that is not the salt of a slot in range
C33_AboveAndStaleRefused ==
    [][(/\ last'.op = "buildNavMeshTile"
        /\ OutOfRangeOrStale(tc, last'.ref)
        /\ decodeTileIdTile(tc, last'.ref) # tc.m_params.maxTiles) =>
          /\ ~last'.crash
          /\ last'.status = DT_FAILURE \cup DT_INVALID_PARAM
          /\ nav' = nav
      ]_vars

\* the ADD request of the obstacle in slot i is still in the queue
AddQueued(c, i) ==
    \E k \in 1..Len(c.m_reqs) :
        c.m_reqs[k] = [action |-> "ADD", ref |-> getObstacleRef(c, i)]

\* C34: an obstacle in state PROCESSED has an empty pending set and its ADD
\* request has been drained; an obstacle added while the rebuild list is not
\* empty does not become PROCESSED before its ADD request is processed.
C34_ProcessedAfterAdd ==
    \A i \in ObstacleSlots(tc) :
        tc.m_obstacles[i].state = "PROCESSED"
            => /\ tc.m_obstacles[i].pending = << >>
               /\ ~AddQueued(tc, i)

\* the pending set of an obstacle is empty when the obstacle becomes PROCESSED
C34_NothingPendingWhenSettled ==
    [][\A i \in ObstacleSlots(tc) :
           (/\ tc.m_obstacles[i].state # "PROCESSED"
            /\ tc'.m_obstacles[i].state = "PROCESSED")
               => tc'.m_obstacles[i].pending = << >>]_vars

(***************************************************************************)
(* Specification SpecLut: a mesh of LutTiles slots, whose position hash    *)
(* has two buckets.  The caller adds the tiles at (0,0,0), (0,0,1) (same   *)
(* column), (1,0,0) (other bucket) and (0,1,0) (the bucket of (1,0,0)),    *)
(* without lastRef or into a slot of its choice, and removes live tiles.   *)
(***************************************************************************)
InitLut ==
    /\ nav = init([maxTiles |-> LutTiles, maxPolys |-> MaxPolys]).nav
    /\ tc = NewCache
    /\ last = NoCall
    /\ hist = NoHist

\* lastRef: none, or salt 1 with slot 2
LutLastRefs(n) == {U32Zero, encodePolyId(n, 1, 2, 0)}

NextLut ==
    \/ \E d \in {1, 2, 3, 8}, lastRef \in LutLastRefs(nav) :
           AddTile(d, 0, lastRef)
    \/ \E it \in LiveTiles(nav) :
           /\ nav.m_tiles[it].salt <= SaltWindow
           /\ RemoveTile(getTileRefOf(nav, it), FALSE)

SpecLut == InitLut /\ [][NextLut]_vars


\* the slots reached from head by following next, one more than there are
\* slots at most: a chain that runs into a cycle has more than maxTiles
\* entries
ChainOfSlots(n, head) == ChainFrom(n.m_tiles, head, n.m_maxTiles + 1)

EndsAcyclic(n, chain) == Len(chain) <= n.m_maxTiles /\ NoRepeat(chain)

BucketOf(n, h) == ChainOfSlots(n, n.m_posLookup[h])

\* C35: every tile slot is in exactly one place: a slot with a null header
\* is on the free list and in no bucket, a slot with a header is in the
\* bucket of its header's (x, y), in no other bucket and not on the free
\* list; the free list and the bucket chains are acyclic; the free slots and
\* the live tiles together are maxTiles.
C35_SlotPartition ==
    /\ EndsAcyclic(nav, ChainOfSlots(nav, nav.m_nextFree))
    /\ \A h \in 0..(nav.m_tileLutSize - 1) : EndsAcyclic(nav, BucketOf(nav, h))
    /\ \A it \in Slots(nav) :
           IF nav.m_tiles[it].header = NULL_DATA
           THEN /\ contains(ChainOfSlots(nav, nav.m_nextFree), it)
                /\ \A h \in 0..(nav.m_tileLutSize - 1) :
                       ~contains(BucketOf(nav, h), it)
           ELSE /\ ~contains(ChainOfSlots(nav, nav.m_nextFree), it)
                /\ \A h \in 0..(nav.m_tileLutSize - 1) :
                       contains(BucketOf(nav, h), it)
                           <=> h = computeTileHash(nav.m_tiles[it].hdr.x,
                                                   nav.m_tiles[it].hdr.y,
                                                   nav.m_tileLutMask)
    /\ Len(ChainOfSlots(nav, nav.m_nextFree)) + Cardinality(LiveTiles(nav))
           = nav.m_maxTiles

\* a tile was removed while one bucket holds tiles of two positions, the
\* other bucket holds a tile, and a tile sits in the slot its lastRef named
\* while slot 0 is free
C35_Witness ==
    /\ last.op = "removeTile" /\ dtStatusSucceed(last.status)
    /\ \E h \in 0..(nav.m_tileLutSize - 1) :
           /\ Len(BucketOf(nav, h)) = 2
           /\ nav.m_tiles[BucketOf(nav, h)[1]].hdr.x
                  # nav.m_tiles[BucketOf(nav, h)[2]].hdr.x
    /\ \A h \in 0..(nav.m_tileLutSize - 1) : BucketOf(nav, h) # << >>
    /\ 2 \in LiveTiles(nav) /\ 0 \notin LiveTiles(nav)


\* the obstacle slots reached from the head of the free list, one more than
\* there are slots at most
ObstacleChain(c) ==
    ChainFrom(c.m_obstacles, c.m_nextFreeObstacle, c.m_params.maxObstacles + 1)

\* C36: an obstacle slot is on the obstacle free list if and only if its
\* state is EMPTY, and no slot is on the list more than once (the list is
\* acyclic), so that addObstacle never hands out a slot that is in use.
C36_ObstacleFreeList ==
    /\ Len(ObstacleChain(tc)) <= tc.m_params.maxObstacles
    /\ NoRepeat(ObstacleChain(tc))
    /\ \A i \in ObstacleSlots(tc) :
           contains(ObstacleChain(tc), i) <=> tc.m_obstacles[i].state = "EMPTY"


\* C37: on a mesh no slot of which has been freed (every salt is the 1 init
\* gave it; the specification adds without lastRef) the k live tiles are in
\* the slots 0 .. k-1; a successful addTile without lastRef takes the head of
\* the free list, with the salt the slot has, and a successful removeTile
\* puts the freed slot, with another salt, at the head of the free list: the
\* next addTile takes the slot freed last.
C37_AllocationOrder ==
    [][/\ (\A it \in Slots(nav') : nav'.m_tiles[it].salt = 1)
              => LiveTiles(nav') = 0..(Cardinality(LiveTiles(nav')) - 1)
       /\ (last'.op = "addTile" /\ dtStatusSucceed(last'.status))
              => /\ nav.m_nextFree # NULL_TILE
                 /\ LiveTiles(nav') = LiveTiles(nav) \cup {nav.m_nextFree}
                 /\ nav'.m_tiles[nav.m_nextFree].salt
                        = nav.m_tiles[nav.m_nextFree].salt
                 /\ nav'.m_nextFree = nav.m_tiles[nav.m_nextFree].next
       /\ (last'.op = "removeTile" /\ dtStatusSucceed(last'.status))
              => /\ nav'.m_nextFree \in LiveTiles(nav)
                 /\ LiveTiles(nav') = LiveTiles(nav) \ {nav'.m_nextFree}
                 /\ nav'.m_tiles[nav'.m_nextFree].next = nav.m_nextFree
                 /\ nav'.m_tiles[nav'.m_nextFree].salt
                        # nav.m_tiles[nav'.m_nextFree].salt
      ]_vars

\* an addTile has just taken slot 0 again, freed last, while slot 1 holds a
\* tile and slot 2 has never been used
C37_Witness ==
    /\ last.op = "addTile" /\ dtStatusSucceed(last.status)
    /\ LiveTiles(nav) = {0, 1}
    /\ nav.m_tiles[0].salt = 2
    /\ nav.m_tiles[1].salt = 1
    /\ nav.m_tiles[2].salt = 1
    /\ nav.m_nextFree = 2


\* the live tiles at (x, y), and the one on the given layer
LiveAt(n, x, y) ==
    {it \in LiveTiles(n) : n.m_tiles[it].hdr.x = x /\ n.m_tiles[it].hdr.y = y}

LiveOn(n, x, y, layer) ==
    {it \in LiveAt(n, x, y) : n.m_tiles[it].hdr.layer = layer}

\* the positions and the capacities the lookups are asked for
ProbeCoords == -1..2

ProbeLayers == 0..2

ProbeCaps == 0..3

\* C38: after any sequence of addTile and removeTile, getTileAt(x, y, layer)
\* is the live tile with that triple and null if there is none, getTileRefAt
\* is the reference of that tile and 0 if there is none, and getTilesAt(x, y)
\* holds live tiles with that (x, y) only, each once, all of them up to the
\* capacity of the caller; also when tiles of other positions are in the
\* same hash bucket.
C38_LookupExact ==
    \A x \in ProbeCoords, y \in ProbeCoords :
        /\ \A layer \in ProbeLayers :
               /\ IF LiveOn(nav, x, y, layer) = { }
                  THEN /\ getTileAt(nav, x, y, layer) = NULL_TILE
                       /\ getTileRefAt(nav, x, y, layer) = U32Zero
                  ELSE /\ getTileAt(nav, x, y, layer) \in LiveOn(nav, x, y, layer)
                       /\ getTileRefAt(nav, x, y, layer)
                              = getTileRefOf(nav, getTileAt(nav, x, y, layer))
               /\ Cardinality(LiveOn(nav, x, y, layer)) <= 1
        /\ \A cap \in ProbeCaps :
               /\ SeqToSet(getTilesAt(nav, x, y, cap)) \subseteq LiveAt(nav, x, y)
               /\ NoRepeat(getTilesAt(nav, x, y, cap))
               /\ Len(getTilesAt(nav, x, y, cap))
                      = dtMin(cap, Cardinality(LiveAt(nav, x, y)))

\* the bucket of (1,0) holds the tiles at (1,0) and (0,1), the column (0,0)
\* holds two layers, and a slot that was freed holds a tile again
C38_Witness ==
    /\ LiveAt(nav, 1, 0) # { }
    /\ LiveAt(nav, 0, 1) # { }
    /\ SeqToSet(Bucket(nav, 1, 0)) = LiveAt(nav, 1, 0) \cup LiveAt(nav, 0, 1)
    /\ Cardinality(LiveAt(nav, 0, 0)) = 2
    /\ \E it \in LiveTiles(nav) : nav.m_tiles[it].salt > 1


(***************************************************************************)
(* Specification SpecLive: the caller of SpecObs, who at some point stops  *)
(* adding and removing obstacles (hist.quiet) and from then on only calls  *)
(* update.  The caller calls update again and again: weak fairness of the  *)
(* update call.                                                            *)
(***************************************************************************)
InitLive ==
    /\ nav = init([maxTiles |-> MaxTiles, maxPolys |-> MaxPolys]).nav
    /\ tc = TwoLayers
    /\ last = NoCall
    /\ hist = [quiet |-> FALSE] @@ NoHist

\* the last addObstacle or removeObstacle has been made
Quiesce ==
    /\ ~hist.quiet
    /\ hist' = [hist EXCEPT !.quiet = TRUE]
    /\ UNCHANGED <<nav, tc, last>>

UpdateCall == \E outcome \in BuildOutcomes : Update(outcome, FALSE)

NextLive ==
    \/ \E o \in Cylinders : ~hist.quiet /\ MayAdd(tc) /\ AddObstacle(o)
    \/ \E o \in Boxes : ~hist.quiet /\ MayAdd(tc) /\ AddBoxObstacle(o)
    \/ \E ref \in SlotRefs(tc) :
           ~hist.quiet /\ MayCall(tc) /\ RemoveObstacle(ref)
    \/ Quiesce
    \/ UpdateCall

\* a call of update would change the state: it is possible, and a queue is
\* not empty or the last call was not an update that found both empty
UpdateDue ==
    /\ ~last.crash
    /\ \/ tc.m_reqs # << >>
       \/ tc.m_update # << >>
       \/ last # [op |-> "update", status |-> DT_SUCCESS, crash |-> FALSE,
                  upToDate |-> TRUE, builds |-> << >>]

\* the fairness of the caller: update is called again and again
SpecLiveWF == InitLive /\ [][NextLive]_vars /\ WF_vars(UpdateCall)

\* SpecLiveWF with ENABLED <<UpdateCall>>_vars written out as UpdateDue
SpecLive ==
    /\ InitLive /\ [][NextLive]_vars
    /\ ([]<>~UpdateDue \/ []<><<UpdateCall>>_vars)

\* UpdateDue is ENABLED <<UpdateCall>>_vars: where it holds some call of
\* update changes the state, and where it does not none does
UpdateDueEnabled ==
    UpdateDue
        => \E outcome \in BuildOutcomes :
               \E r \in {update(tc, nav, outcome)} :
                   <<r.tc, r.nav,
                     [op |-> "update", status |-> r.status, crash |-> r.crash,
                      upToDate |-> r.upToDate, builds |-> r.builds]>>
                       # <<tc, nav, last>>

UpdateIdleUnlessDue == [][~UpdateDue => ~UpdateCall]_vars

\* C39: once no addObstacle and no removeObstacle is called any more, the
\* calls of update lead to a call that reports upToDate = true, also when
\* builds fail, and from some call on every call reports upToDate = true
\* and builds nothing.
C39_UpdateDrains ==
    /\ hist.quiet ~> (Updated /\ last.upToDate)
    /\ [][(hist.quiet /\ Updated /\ last.upToDate /\ last'.op = "update")
             => (/\ ~last'.crash /\ last'.upToDate /\ last'.builds = << >>
                 /\ nav' = nav)]_vars

\* the caller has stopped, update reports upToDate = true without a build,
\* and an obstacle that touches two layers is PROCESSED
C39_Witness ==
    /\ hist.quiet
    /\ Updated /\ last.upToDate /\ last.builds = << >>
    /\ \E i \in ObstacleSlots(tc) :
           /\ tc.m_obstacles[i].state = "PROCESSED"
           /\ Len(tc.m_obstacles[i].touched) = 2


(***************************************************************************)
(* Specification SpecOffMesh: the tile at (0,1) with one off-mesh          *)
(* connection, as PayloadS4 and its variants, next to the tiles at (0,0)   *)
(* and (1,0); tiles are added without lastRef and removed.                 *)
(***************************************************************************)
NextOffMesh ==
    \/ \E d \in OffMeshIds \cup {4, 2} : AddTile(d, 0, U32Zero)
    \/ \E it \in LiveTiles(nav) :
           /\ nav.m_tiles[it].salt <= SaltWindow
           /\ RemoveTile(getTileRefOf(nav, it), FALSE)

SpecOffMesh == InitStitch /\ [][NextOffMesh]_vars

\* the live tiles with an off-mesh connection, and the first connection
WithConnection(n) == {T \in LiveTiles(n) : n.m_tiles[T].hdr.offMeshConCount > 0}

FirstCon(n, T) == n.m_tiles[T].hdr.offMeshCons[1]

\* what the snap of the start point of the first connection of T finds
StartSnap(n, T) ==
    findNearestPolyInTile(n, T, SubSeq(FirstCon(n, T).pos, 1, 3),
                          <<FirstCon(n, T).rad, n.m_tiles[T].hdr.walkableClimb,
                            FirstCon(n, T).rad>>)

\* a polygon is found and the snapped point is within the radius in the plane
SnapSucceeds(n, T) ==
    /\ StartSnap(n, T).ref # U32Zero
    /\ dtSqr(StartSnap(n, T).nearestPt[1] - FirstCon(n, T).pos[1])
         + dtSqr(StartSnap(n, T).nearestPt[3] - FirstCon(n, T).pos[3])
           <= dtSqr(FirstCon(n, T).rad)

\* the links of polygon poly of T whose ref, edge and side are as given
LinksLike(n, T, poly, ref, edge, side) ==
    {j \in SeqToSet(PolyLinks(n.m_tiles[T], poly)) :
        /\ n.m_tiles[T].links[j + 1].ref = ref
        /\ n.m_tiles[T].links[j + 1].edge = edge
        /\ n.m_tiles[T].links[j + 1].side = side}

OffMeshRef(n, T) == U32Or(getPolyRefBase(n, T), U32(FirstCon(n, T).poly))

\* the connection of T is unbound: its polygon has no link and no polygon
\* of T has a link to it
Unbound(n, T) ==
    /\ n.m_tiles[T].firstLink[FirstCon(n, T).poly + 1] = DT_NULL_LINK
    /\ \A p \in 0..(n.m_tiles[T].hdr.polyCount - 1) :
           \A j \in SeqToSet(PolyLinks(n.m_tiles[T], p)) :
               n.m_tiles[T].links[j + 1].ref # OffMeshRef(n, T)

\* the link off the connection to the polygon under its start point, and
\* the link back
HasLinkOff(n, T) ==
    LinksLike(n, T, FirstCon(n, T).poly, StartSnap(n, T).ref, 0, 255) # { }

HasLinkBack(n, T) ==
    LinksLike(n, T, decodePolyIdPoly(n, StartSnap(n, T).ref),
              OffMeshRef(n, T), 255, 255) # { }

\* the links connectIntLinks asks for: the internal edges of the ground
\* polygons
InternalEdges(hdr) ==
    {e \in (1..hdr.polyCount) \X (1..6) :
        /\ hdr.polys[e[1]].type # DT_POLYTYPE_OFFMESH_CONNECTION
        /\ e[2] <= hdr.polys[e[1]].vertCount
        /\ hdr.polys[e[1]].neis[e[2]] # 0
        /\ hdr.polys[e[1]].neis[e[2]] < DT_EXT_LINK}

\* the free links of the pool of T when baseOffMeshLinks starts
RoomForBase(n, T) ==
    n.m_tiles[T].hdr.maxLinkCount - Cardinality(InternalEdges(n.m_tiles[T].hdr))

\* C40: baseOffMeshLinks binds a connection only when the snap of its start
\* point succeeds.  After a failed snap the off-mesh polygon has no link
\* (firstLink is DT_NULL_LINK, so connectExtOffMeshLinks skips it) and no
\* link was allocated for it; after a successful snap the link off the
\* connection (edge 0, side 0xff) and the link back from the polygon under
\* the start point (edge 0xff, side 0xff) are there, whatever the flags.
C40_BaseLinksOnSnap ==
    \A T \in WithConnection(nav) :
        IF SnapSucceeds(nav, T)
        THEN HasLinkOff(nav, T) /\ HasLinkBack(nav, T)
        ELSE Unbound(nav, T)

\* C40 with the link pool taken into account: after a successful snap the
\* link off the connection is there if and only if the pool had a free link
\* when baseOffMeshLinks started, and the link back if and only if it had
\* two.
C40_BaseLinksWhilePoolLasts ==
    \A T \in WithConnection(nav) :
        IF SnapSucceeds(nav, T)
        THEN /\ HasLinkOff(nav, T) <=> RoomForBase(nav, T) >= 1
             /\ HasLinkBack(nav, T) <=> RoomForBase(nav, T) >= 2
        ELSE Unbound(nav, T)

\* a tile whose start point was snapped and whose pool of one link gave the
\* link off the connection but not the link back, after tiles whose snap
\* failed and whose connection runs one way were added and removed
C40_Witness ==
    /\ last.op = "addTile" /\ dtStatusSucceed(last.status)
    /\ \E T \in WithConnection(nav) :
           /\ SnapSucceeds(nav, T)
           /\ HasLinkOff(nav, T)
           /\ ~HasLinkBack(nav, T)
           /\ nav.m_tiles[T].salt > 1

=============================================================================
